---- MODULE Spec2Model ----
(***************************************************************************)
(* Fuzzy knowledge-matching engine of WildstarStudios/Algo-info.           *)
(*                                                                         *)
(* Two stores are modelled:                                                *)
(*   - the flat knowledge base of chatbot.py, written by the web endpoint  *)
(*     /train/add (V1/webui.py) and by the console training session;       *)
(*   - the grouped store of V2/chat.py (tables groups, questions, answers  *)
(*     of the SQLite file, written by create/update/delete_group).         *)
(* Text is a sequence of one-character strings, so that lower(), strip(),  *)
(* the regular expressions and the normalisation are computed as the code  *)
(* computes them.                                                          *)
(***************************************************************************)
EXTENDS Integers, Sequences, FiniteSets, TLC

VARIABLES
    kb,      \* flat model: the in-memory list kb["knowledge"]
    disk,    \* flat model: the list last written to knowledge.json
    last,    \* flat model: what the last request was and how it ended
    db,      \* grouped model: the committed content of knowledge_base.db
    glast,   \* grouped model: the status of the last response, and whether the
             \* request was a PATCH of a group that existed
    lock,    \* grouped model: the thread that holds db_lock, 0 when it is free
    th,      \* threaded models: where each request thread of the server is
    recent,  \* flat model: the list recent_phrase_responses of chatbot.py
    reply    \* what the last two chat requests were asked and answered

vars == <<kb, disk, last, db, glast, lock, th, recent, reply>>

---------------------------------------------------------------------------
(* Bounds of the model.                                                    *)

\* no add makes the flat list longer than this
MaxKnowledge == 2

\* the requests one thread is handed in the exploration of the concurrent answers
MaxRequests == 3

\* create_group stops once this many group ids have been handed out
MaxGroups == 2

---------------------------------------------------------------------------
(* Text.                                                                   *)

NL == "\n"

Range(s) == {s[i] : i \in 1..Len(s)}

Max(S) == CHOOSE m \in S : \A k \in S : k <= m

Min(S) == CHOOSE m \in S : \A k \in S : m <= k

\* str.lower() on one character
ToLower(c) ==
    CASE c = "H" -> "h"
      [] c = "Y" -> "y"
      [] c = "O" -> "o"
      [] c = "K" -> "k"
      [] OTHER -> c

lower(s) == [i \in 1..Len(s) |-> ToLower(s[i])]

\* \s of the regular expressions, and what strip() removes
IsSpace(c) == c \in {" ", NL}

\* \w of the regular expressions
IsWord(c) ==
    c \in {"a", "b", "c", "d", "e", "f", "g", "h", "i", "j", "k", "l", "m", "n", "o", "p",
           "q", "r", "s", "t", "u", "v", "w", "x", "y", "z", "H", "Y", "O", "K",
           "0", "1", "2", "3", "4", "5", "6", "7", "8", "9", "_"}

\* [\.\?\!\;\:]
IsTerminal(c) == c \in {".", "?", "!", ";", ":"}

\* [<>&\"\']
IsDangerous(c) == c \in {"<", ">", "&", "\"", "'"}

RECURSIVE lstrip(_)
lstrip(s) == IF s # <<>> /\ IsSpace(Head(s)) THEN lstrip(Tail(s)) ELSE s

RECURSIVE rstrip(_)
rstrip(s) == IF s # <<>> /\ IsSpace(s[Len(s)]) THEN rstrip(SubSeq(s, 1, Len(s) - 1)) ELSE s

strip(s) == rstrip(lstrip(s))

\* _space_re.sub(' ', text): every maximal run of whitespace becomes one blank
RECURSIVE collapse_spaces(_)
collapse_spaces(s) ==
    IF s = <<>> THEN <<>>
    ELSE IF IsSpace(Head(s))
         THEN <<" ">> \o collapse_spaces(lstrip(s))
         ELSE <<Head(s)>> \o collapse_spaces(Tail(s))

normalize_text(text) ==
    LET lowered == lower(text)
        nopunct == SelectSeq(lowered, LAMBDA c : IsWord(c) \/ IsSpace(c))
    IN strip(collapse_spaces(nopunct))

sanitize_text(text) == strip(SelectSeq(text, LAMBDA c : ~IsDangerous(c)))

\* the last index of the maximal whitespace run that starts at index i
RECURSIVE RunEnd(_, _)
RunEnd(s, i) == IF i < Len(s) /\ IsSpace(s[i + 1]) THEN RunEnd(s, i + 1) ELSE i

\* re.split(r'\r?\n\s*\r?\n', s): a separator runs from a newline to the last
\* newline of the whitespace that follows it
RECURSIVE re_split_paragraphs(_, _, _)
re_split_paragraphs(s, st, i) ==
    IF i > Len(s) THEN <<SubSeq(s, st, Len(s))>>
    ELSE IF s[i] = NL
         THEN LET e == RunEnd(s, i)
                  nls == {k \in (i + 1)..e : s[k] = NL}
              IN IF nls # {}
                 THEN <<SubSeq(s, st, i - 1)>>
                      \o re_split_paragraphs(s, Max(nls) + 1, Max(nls) + 1)
                 ELSE re_split_paragraphs(s, st, e + 1)
         ELSE re_split_paragraphs(s, st, i + 1)

split_paragraphs(text) ==
    IF text = <<>> THEN <<>>
    ELSE LET parts == re_split_paragraphs(strip(text), 1, 1)
             kept == SelectSeq(parts, LAMBDA p : strip(p) # <<>>)
         IN [i \in 1..Len(kept) |-> rstrip(kept[i])]

\* _sentence_split_re.split(s): whitespace that follows a terminal mark separates
RECURSIVE re_split_sentences(_, _, _)
re_split_sentences(s, st, i) ==
    IF i > Len(s) THEN <<SubSeq(s, st, Len(s))>>
    ELSE IF IsSpace(s[i]) /\ i > 1 /\ IsTerminal(s[i - 1])
         THEN LET e == RunEnd(s, i)
              IN <<SubSeq(s, st, i - 1)>> \o re_split_sentences(s, e + 1, e + 1)
         ELSE re_split_sentences(s, st, i + 1)

split_into_sentences(text) ==
    IF text = <<>> \/ ~(\E i \in 1..Len(text) : IsTerminal(text[i]))
    THEN <<strip(text)>>
    ELSE LET parts == re_split_sentences(text, 1, 1)
             kept == SelectSeq(parts, LAMBDA p : strip(p) # <<>>)
         IN [i \in 1..Len(kept) |-> strip(kept[i])]

\* the texts the requests of the model are built from
T_hi == <<"h", "i">>
T_Hi == <<"H", "i">>
T_yo == <<"y", "o">>
T_is == <<"i", "s">>
T_a == <<"a">>
T_b == <<"b">>

---------------------------------------------------------------------------
(* Flat knowledge base: chatbot.py.                                        *)

ContentTypes == {"fact", "concept", "rule", "instruction"}

\* the trigger phrases of a stored phrase entry: its "inputs" list, else its
\* single "input"
existing_triggers(entry) ==
    IF "inputs" \in DOMAIN entry THEN Range(entry.inputs)
    ELSE IF "input" \in DOMAIN entry THEN {entry.input}
    ELSE {}

\* new_entry.get("inputs", [])
new_inputs(new_entry) ==
    IF "inputs" \in DOMAIN new_entry THEN Range(new_entry.inputs) ELSE {}

\* for output in new: if output not in outputs: outputs.append(output)
RECURSIVE union_outputs(_, _)
union_outputs(outputs, new) ==
    IF new = <<>> THEN outputs
    ELSE union_outputs(IF Head(new) \in Range(outputs) THEN outputs
                       ELSE Append(outputs, Head(new)),
                       Tail(new))

\* a variant that compares the content of facts, concepts, rules and
\* instructions as written, without lower()
merge_target_case_sensitive(knowledge, new_entry) ==
    LET t == new_entry.type
        hit(entry) ==
            CASE t = "association" ->
                    entry.type = "association" /\ entry.content = new_entry.content
              [] t = "phrase" ->
                    entry.type = "phrase"
                    /\ (new_inputs(new_entry) \cap existing_triggers(entry)) # {}
              [] t = "example" ->
                    entry.type = "example" /\ entry.input = new_entry.input
              [] t \in ContentTypes ->
                    entry.type = t /\ entry.content = new_entry.content
              [] OTHER -> FALSE
        hits == {i \in 1..Len(knowledge) : hit(knowledge[i])}
    IN IF hits = {} THEN 0 ELSE Min(hits)

\* the index of the first entry the new entry collides with, 0 when there is none
merge_target(knowledge, new_entry) ==
    LET t == new_entry.type
        hit(entry) ==
            CASE t = "association" ->
                    entry.type = "association" /\ entry.content = new_entry.content
              [] t = "phrase" ->
                    entry.type = "phrase"
                    /\ (new_inputs(new_entry) \cap existing_triggers(entry)) # {}
              [] t = "example" ->
                    entry.type = "example" /\ entry.input = new_entry.input
              [] t \in ContentTypes ->
                    entry.type = t /\ lower(entry.content) = lower(new_entry.content)
              [] OTHER -> FALSE
        hits == {i \in 1..Len(knowledge) : hit(knowledge[i])}
    IN IF hits = {} THEN 0 ELSE Min(hits)

\* a variant whose example branch appends instead of overwriting
add_or_merge_entry_example_appends(knowledge, new_entry) ==
    LET t == new_entry.type
        i == merge_target(knowledge, new_entry)
    IN IF t \notin ({"association", "phrase", "example"} \cup ContentTypes)
       THEN knowledge
       ELSE IF i = 0 \/ t = "example" THEN Append(knowledge, new_entry)
       ELSE IF t = "phrase"
            THEN [knowledge EXCEPT ![i].outputs =
                      union_outputs(knowledge[i].outputs, new_entry.outputs)]
       ELSE knowledge

add_or_merge_entry(knowledge, new_entry) ==
    LET t == new_entry.type
        i == merge_target(knowledge, new_entry)
    IN IF t \notin ({"association", "phrase", "example"} \cup ContentTypes)
       THEN knowledge
       ELSE IF i = 0 THEN Append(knowledge, new_entry)
       ELSE IF t = "phrase"
            THEN [knowledge EXCEPT ![i].outputs =
                      union_outputs(knowledge[i].outputs, new_entry.outputs)]
       ELSE IF t = "example"
            THEN [knowledge EXCEPT ![i].output = new_entry.output]
       ELSE knowledge

\* which return of add_or_merge_entry is taken
merge_branch(knowledge, new_entry) ==
    IF merge_target(knowledge, new_entry) = 0 THEN "appended"
    ELSE IF new_entry.type = "phrase" THEN "merged"
    ELSE IF new_entry.type = "example" THEN "updated"
    ELSE "duplicate"

\* save_knowledge: the file holds the list once the write succeeded, and is
\* left as it was when open() fails
save_knowledge(file, knowledge, ok) == IF ok THEN knowledge ELSE file

\* load_knowledge: the list of the file ([] when there is no file)
load_knowledge(file) == file

---------------------------------------------------------------------------
(* /train/add of V1/webui.py.                                              *)

\* payload.get(k) is None, "" or []
Falsy(payload, k) == k \notin DOMAIN payload \/ payload[k] = <<>>

\* the JSON bodies posted to /train/add
TrainPayloads ==
    { [type |-> "fact", content |-> T_Hi],
      [type |-> "fact", content |-> T_hi],
      [type |-> "rule", content |-> T_hi],
      [type |-> "association",
       content |-> [subject |-> T_hi, predicate |-> T_is, object |-> T_yo]],
      [type |-> "example", input |-> T_Hi \o <<" ">>, output |-> T_a],
      [type |-> "example", input |-> T_hi, output |-> T_b],
      [type |-> "example", input |-> T_hi, output |-> <<>>],
      [type |-> "phrase", input |-> T_hi, outputs |-> <<T_a>>],
      [type |-> "phrase", input |-> T_Hi, outputs |-> <<T_b>>],
      \* refused by the validation
      [content |-> T_hi],
      [type |-> "joke", content |-> T_hi],
      [type |-> "fact", content |-> <<>>],
      [type |-> "association", content |-> [subject |-> T_hi, predicate |-> T_is]],
      [type |-> "example", input |-> T_hi],
      [type |-> "phrase", input |-> T_hi, outputs |-> <<>>] }

\* whether train_add answers 400 before it calls add_or_merge_entry
train_invalid(payload) ==
    IF "type" \notin DOMAIN payload THEN TRUE
    ELSE LET t == payload.type
         IN CASE t = "association" ->
                    "content" \notin DOMAIN payload
                    \/ ~({"subject", "predicate", "object"} \subseteq DOMAIN payload.content)
              [] t = "phrase" -> Falsy(payload, "input") \/ Falsy(payload, "outputs")
              [] t = "example" -> Falsy(payload, "input") \/ "output" \notin DOMAIN payload
              [] t \in ContentTypes -> Falsy(payload, "content")
              [] OTHER -> TRUE

\* the new_entry train_add builds from a valid payload
train_entry(payload) ==
    LET t == payload.type
    IN CASE t = "association" ->
                [type |-> "association",
                 content |-> [subject |-> payload.content.subject,
                              predicate |-> payload.content.predicate,
                              object |-> payload.content.object]]
         [] t = "phrase" ->
                [type |-> "phrase", input |-> strip(lower(payload.input)),
                 outputs |-> payload.outputs]
         [] t = "example" ->
                [type |-> "example", input |-> strip(lower(payload.input)),
                 output |-> payload.output]
         [] OTHER -> [type |-> t, content |-> payload.content]

\* the whole request: validation, add_or_merge_entry, save_knowledge, and the
\* except clause that turns a failed write into a 500
train_add_result(knowledge, file, payload, save_ok) ==
    IF train_invalid(payload)
    THEN [kb |-> knowledge, disk |-> file,
          last |-> [op |-> "train_add", status |-> 400, branch |-> "none"]]
    ELSE LET e == train_entry(payload)
         IN [kb |-> add_or_merge_entry(knowledge, e),
             disk |-> save_knowledge(file, add_or_merge_entry(knowledge, e), save_ok),
             last |-> [op |-> "train_add",
                       status |-> IF save_ok THEN 200 ELSE 500,
                       branch |-> merge_branch(knowledge, e)]]

---------------------------------------------------------------------------
(* training_session of chatbot.py: one turn of the console loop.           *)

\* what is typed in one turn: the type and the answers to the prompts
SessionInputs ==
    { [type |-> "concept", content |-> <<" ">> \o T_yo],
      [type |-> "instruction", content |-> T_yo],
      [type |-> "association", subject |-> T_Hi, predicate |-> T_is, object |-> T_yo],
      [type |-> "example", input |-> T_Hi, output |-> T_a \o <<" ">>],
      [type |-> "phrase", inputs |-> <<T_Hi, T_yo>>, outputs |-> <<T_a>>],
      [type |-> "phrase", inputs |-> <<T_yo>>, outputs |-> <<T_b, T_a, T_b>>],
      [type |-> "phrase", inputs |-> <<>>, outputs |-> <<T_a>>] }

\* the entry the turn hands to add_or_merge_entry
session_entry(typed) ==
    LET t == typed.type
    IN CASE t = "association" ->
                [type |-> "association",
                 content |-> [subject |-> lower(strip(typed.subject)),
                              predicate |-> lower(strip(typed.predicate)),
                              object |-> lower(strip(typed.object))]]
         [] t = "example" ->
                [type |-> "example", input |-> lower(strip(typed.input)),
                 output |-> strip(typed.output)]
         [] t = "phrase" ->
                [type |-> "phrase",
                 inputs |-> [i \in 1..Len(typed.inputs) |-> lower(strip(typed.inputs[i]))],
                 outputs |-> [i \in 1..Len(typed.outputs) |-> strip(typed.outputs[i])]]
         [] OTHER -> [type |-> t, content |-> strip(typed.content)]

\* a phrase is handed over only "if triggers and outputs"
session_skips(typed) ==
    typed.type = "phrase" /\ (typed.inputs = <<>> \/ typed.outputs = <<>>)

\* the whole turn, save_knowledge included. A failed write is not caught: the
\* process ends, and the next start loads the list from the file.
training_session_result(knowledge, file, typed, save_ok) ==
    LET e == session_entry(typed)
        added == IF session_skips(typed) THEN knowledge
                 ELSE add_or_merge_entry(knowledge, e)
    IN [kb |-> IF save_ok THEN added ELSE load_knowledge(file),
        disk |-> save_knowledge(file, added, save_ok),
        last |-> [op |-> "training_session",
                  status |-> IF save_ok THEN 200 ELSE 0,
                  branch |-> IF session_skips(typed) THEN "none"
                             ELSE merge_branch(knowledge, e)]]

\* every entry the two entry points can hand to add_or_merge_entry
NewEntries ==
    {train_entry(p) : p \in {q \in TrainPayloads : ~train_invalid(q)}}
    \cup {session_entry(c) : c \in {d \in SessionInputs : ~session_skips(d)}}


---------------------------------------------------------------------------
(* Grouped store: V2/chat.py.                                              *)
(*                                                                         *)
(* The database is a record of its three tables and of the AUTOINCREMENT   *)
(* counter of groups. groups and questions are the sequences of their rows *)
(* in the order of their ids (AUTOINCREMENT ids only grow, so this is the  *)
(* insertion order). The rows of answers are only ever read by group       *)
(* (WHERE group_id=?), so the table is kept with the rows of a group       *)
(* together, groups by ascending id, each group's rows in the order of     *)
(* their ids. A name of None is the empty text.                            *)

EmptyDb == [groups |-> <<>>, questions |-> <<>>, answers |-> <<>>, seq |-> 0]

GroupIds(d) == {d.groups[i].id : i \in 1..Len(d.groups)}

\* the request bodies: a field is absent (JSON null), a list of strings, or one
\* block of text
NoneRaw == [kind |-> "none"]
ListRaw(items) == [kind |-> "list", val |-> items]
TextRaw(text) == [kind |-> "text", val |-> text]

\* Python's "not x" on such a field
NotRaw(raw) == raw.kind = "none" \/ raw.val = <<>>

\* _ensure_inputs_list and _ensure_outputs_list (the two are the same code)
ensure_list(raw) ==
    CASE raw.kind = "none" -> <<>>
      [] raw.kind = "list" ->
            LET kept == SelectSeq(raw.val, LAMBDA i : strip(i) # <<>>)
            IN [k \in 1..Len(kept) |-> rstrip(kept[k])]
      [] OTHER -> split_paragraphs(raw.val)

validate_inputs(inputs) ==
    LET cleaned == [k \in 1..Len(inputs) |-> sanitize_text(inputs[k])]
    IN SelectSeq(cleaned, LAMBDA x : x # <<>>)

\* the sentences of the paragraphs, in order: what the two INSERT loops of
\* create_group and update_group go through
RECURSIVE sentences_of(_)
sentences_of(inputs_list) ==
    IF inputs_list = <<>> THEN <<>>
    ELSE LET sents == split_into_sentences(Head(inputs_list))
             stripped == [k \in 1..Len(sents) |-> strip(sents[k])]
         IN SelectSeq(stripped, LAMBDA q : q # <<>>) \o sentences_of(Tail(inputs_list))

\* the statements of a transaction, as data
InsGroup(name) == [op |-> "ins_group", name |-> name]
UpdGroup(gid, name) == [op |-> "upd_group", gid |-> gid, name |-> name]
InsQuestion(gid, q) == [op |-> "ins_q", gid |-> gid, question |-> q]
InsAnswer(gid, a) == [op |-> "ins_a", gid |-> gid, answer |-> a]
DelQuestions(gid) == [op |-> "del_q", gid |-> gid]
DelAnswers(gid) == [op |-> "del_a", gid |-> gid]
DelGroup(gid) == [op |-> "del_group", gid |-> gid]

\* INSERT OR IGNORE INTO questions: question is UNIQUE
question_conflict(d, w) ==
    \E i \in 1..Len(d.questions) : d.questions[i].question = w.question

\* INSERT OR IGNORE INTO answers: UNIQUE(group_id, answer)
answer_conflict(d, w) ==
    \E i \in 1..Len(d.answers) :
        d.answers[i].group_id = w.gid /\ d.answers[i].answer = w.answer

\* a new row of answers, put after the rows of its group
insert_answer(rows, gid, a) ==
    SelectSeq(rows, LAMBDA r : r.group_id <= gid)
    \o <<[group_id |-> gid, answer |-> a]>>
    \o SelectSeq(rows, LAMBDA r : r.group_id > gid)

\* a variant whose INSERTs ignore nothing, as if the tables had no UNIQUE
execute_without_unique(d, w) ==
    CASE w.op = "ins_q" ->
            [d EXCEPT !.questions = Append(@, [question |-> w.question,
                                               question_norm |-> normalize_text(w.question),
                                               group_id |-> w.gid])]
      [] w.op = "ins_a" ->
            [d EXCEPT !.answers = insert_answer(@, w.gid, w.answer)]
      [] w.op = "ins_group" ->
            [d EXCEPT !.groups = Append(@, [id |-> d.seq + 1, name |-> w.name]),
                      !.seq = d.seq + 1]
      [] w.op = "upd_group" ->
            [d EXCEPT !.groups = [i \in 1..Len(@) |->
                IF @[i].id = w.gid THEN [@[i] EXCEPT !.name = w.name] ELSE @[i]]]
      [] w.op = "del_q" ->
            [d EXCEPT !.questions = SelectSeq(@, LAMBDA r : r.group_id # w.gid)]
      [] w.op = "del_a" ->
            [d EXCEPT !.answers = SelectSeq(@, LAMBDA r : r.group_id # w.gid)]
      [] OTHER ->
            [d EXCEPT !.groups = SelectSeq(@, LAMBDA r : r.id # w.gid)]

\* db.execute of one statement on the connection's view of the database
execute(d, w) ==
    CASE w.op = "ins_group" ->
            [d EXCEPT !.groups = Append(@, [id |-> d.seq + 1, name |-> w.name]),
                      !.seq = d.seq + 1]
      [] w.op = "upd_group" ->
            [d EXCEPT !.groups = [i \in 1..Len(@) |->
                IF @[i].id = w.gid THEN [@[i] EXCEPT !.name = w.name] ELSE @[i]]]
      [] w.op = "ins_q" ->
            IF question_conflict(d, w) THEN d
            ELSE [d EXCEPT !.questions = Append(@, [question |-> w.question,
                                                    question_norm |-> normalize_text(w.question),
                                                    group_id |-> w.gid])]
      [] w.op = "ins_a" ->
            IF answer_conflict(d, w) THEN d
            ELSE [d EXCEPT !.answers = insert_answer(@, w.gid, w.answer)]
      [] w.op = "del_q" ->
            [d EXCEPT !.questions = SelectSeq(@, LAMBDA r : r.group_id # w.gid)]
      [] w.op = "del_a" ->
            [d EXCEPT !.answers = SelectSeq(@, LAMBDA r : r.group_id # w.gid)]
      [] w.op = "del_group" ->
            [d EXCEPT !.groups = SelectSeq(@, LAMBDA r : r.id # w.gid)]

\* the first n statements, one after the other
RECURSIVE execute_all(_, _, _)
execute_all(d, stmts, n) ==
    IF n = 0 \/ stmts = <<>> THEN d
    ELSE execute_all(execute(d, Head(stmts)), Tail(stmts), n - 1)

\* a variant that keeps the writes made before the failure
rollback_keeps_writes(committed, working) == working

\* db.rollback(): the connection's uncommitted writes are dropped
rollback(committed, working) == committed

\* db.commit()
commit(committed, working) == working

\* close_db at the end of the request: closing the connection drops what it
\* has not committed
close_db(committed, working) == committed

question_stmts(gid, inputs_raw) ==
    LET sents == sentences_of(validate_inputs(ensure_list(inputs_raw)))
    IN [k \in 1..Len(sents) |-> InsQuestion(gid, sents[k])]

answer_stmts(gid, outputs_raw) ==
    LET outs == SelectSeq(validate_inputs(ensure_list(outputs_raw)),
                          LAMBDA o : strip(o) # <<>>)
    IN [k \in 1..Len(outs) |-> InsAnswer(gid, outs[k])]

\* sanitize_text(name) if name else None
clean_name(name) == IF name = <<>> THEN <<>> ELSE sanitize_text(name)

\* the statements of create_group between BEGIN and commit
create_stmts(d, name, inputs_raw, outputs_raw) ==
    <<InsGroup(clean_name(name))>>
    \o question_stmts(d.seq + 1, inputs_raw)
    \o answer_stmts(d.seq + 1, outputs_raw)

\* a variant that does not clear the group first: the new rows are merged in
update_stmts_keeps_rows(gid, name, inputs_raw, outputs_raw) ==
    <<UpdGroup(gid, clean_name(name))>>
    \o question_stmts(gid, inputs_raw)
    \o answer_stmts(gid, outputs_raw)

\* the statements of update_group between BEGIN and commit
update_stmts(gid, name, inputs_raw, outputs_raw) ==
    <<UpdGroup(gid, clean_name(name)), DelQuestions(gid)>>
    \o question_stmts(gid, inputs_raw)
    \o <<DelAnswers(gid)>>
    \o answer_stmts(gid, outputs_raw)

\* the statements of delete_group before its commit
delete_stmts(gid) == <<DelAnswers(gid), DelQuestions(gid), DelGroup(gid)>>

\* A transaction that fails at statement fail_at (Len + 1: at the commit; 0: it
\* does not fail). with_rollback tells whether the function catches the failure
\* and rolls back (create_group, update_group) or lets it go, the connection
\* being closed at the end of the request (delete_group).
transaction(d, stmts, fail_at, with_rollback) ==
    IF fail_at = 0 THEN commit(d, execute_all(d, stmts, Len(stmts)))
    ELSE IF with_rollback THEN rollback(d, execute_all(d, stmts, fail_at - 1))
    ELSE close_db(d, execute_all(d, stmts, fail_at - 1))

\* every point a transaction can fail at, and 0 for no failure
FailPoints(stmts) == 0..(Len(stmts) + 1)

\* The failures the requests of the state machine take: at the second statement
\* (the first one is done) and at the commit (all are done). A failure at any
\* other statement leaves the same state behind (see transaction).
RequestFailPoints(stmts) == {0, 2, Len(stmts) + 1}

\* POST /api/groups
api_groups_post_result(d, name, inputs_raw, outputs_raw, fail_at) ==
    IF NotRaw(inputs_raw) /\ NotRaw(outputs_raw)
    THEN [db |-> d, glast |-> [status |-> 400, updated |-> FALSE]]
    ELSE [db |-> transaction(d, create_stmts(d, strip(name), inputs_raw, outputs_raw),
                             fail_at, TRUE),
          glast |-> [status |-> IF fail_at = 0 THEN 200 ELSE 500, updated |-> FALSE]]

\* PATCH /api/groups/<gid>
api_group_item_patch_result(d, gid, name, inputs_raw, outputs_raw, fail_at) ==
    [db |-> transaction(d, update_stmts(gid, strip(name), inputs_raw, outputs_raw),
                        fail_at, TRUE),
     glast |-> [status |-> IF fail_at = 0 THEN 200 ELSE 500,
                updated |-> gid \in GroupIds(d)]]

\* DELETE /api/groups/<gid>
api_group_item_delete_result(d, gid, fail_at) ==
    [db |-> transaction(d, delete_stmts(gid), fail_at, FALSE),
     glast |-> [status |-> IF fail_at = 0 THEN 200 ELSE 500, updated |-> FALSE]]

\* the JSON bodies posted to /api/groups and patched to /api/groups/<gid>
GroupBodies ==
    { [name |-> T_a, inputs |-> ListRaw(<<T_hi>>), outputs |-> ListRaw(<<T_a>>)],
      [name |-> <<>>, inputs |-> ListRaw(<<T_hi \o <<"!", " ">> \o T_hi, T_hi>>),
       outputs |-> ListRaw(<<T_hi, T_Hi \o <<"!">>, T_hi>>)],
      [name |-> <<>>, inputs |-> TextRaw(T_hi \o <<NL, " ", NL>> \o T_hi \o <<"!">>),
       outputs |-> NoneRaw],
      [name |-> <<>>, inputs |-> NoneRaw, outputs |-> NoneRaw] }

\* the ids a request can name: a group that exists, one that was deleted, one
\* that was not created yet
RequestIds == {1, 2}

---------------------------------------------------------------------------
(* Fuzzy matching: difflib and fuzzywuzzy.                                 *)

\* the characters of the model in the order of their code points
Alphabet ==
    <<NL, " ", "!", "\"", "&", "'", "(", ")", "*", "+", "-", ".", "/",
      "0", "1", "2", "3", "4", "5", "6", "7", "8", "9", ":", ";", "<", ">", "?",
      "H", "K", "O", "Y", "_",
      "a", "b", "c", "d", "e", "f", "g", "h", "i", "j", "k", "l", "m", "n", "o", "p",
      "q", "r", "s", "t", "u", "v", "w", "x", "y", "z">>

\* ord(c), up to the order
Codes == [c \in Range(Alphabet) |-> CHOOSE i \in 1..Len(Alphabet) : Alphabet[i] = c]

CharCode(c) == Codes[c]

\* a < b for two str values
RECURSIVE StrLess(_, _)
StrLess(a, b) ==
    IF b = <<>> THEN FALSE
    ELSE IF a = <<>> THEN TRUE
    ELSE IF Head(a) = Head(b) THEN StrLess(Tail(a), Tail(b))
    ELSE CharCode(Head(a)) < CharCode(Head(b))

\* SequenceMatcher.get_matching_blocks: the number of matched characters in
\* a[alo..ahi] and b[blo..bhi]. find_longest_match takes the longest common
\* block, the one that starts earliest in a and then earliest in b, and the
\* search goes on to its left and to its right. (No junk: isjunk is None, and
\* the texts are far shorter than the 200 characters of autojunk.)
\* the length of the longest common block that starts at a[i] and b[j]
RECURSIVE common_run(_, _, _, _, _, _)
common_run(a, b, i, ahi, j, bhi) ==
    IF i <= ahi /\ j <= bhi /\ a[i] = b[j] THEN 1 + common_run(a, b, i + 1, ahi, j + 1, bhi)
    ELSE 0

RECURSIVE matching_size(_, _, _, _, _, _)
matching_size(a, b, alo, ahi, blo, bhi) ==
    LET longest(run) ==
            LET k == Max({run[p] : p \in DOMAIN run})
                i == Min({p[1] : p \in {q \in DOMAIN run : run[q] = k}})
                j == Min({p[2] : p \in {q \in DOMAIN run : run[q] = k /\ q[1] = i}})
            IN IF k = 0 THEN 0
               ELSE k + matching_size(a, b, alo, i - 1, blo, j - 1)
                      + matching_size(a, b, i + k, ahi, j + k, bhi)
    IN IF alo > ahi \/ blo > bhi THEN 0
       ELSE longest([p \in (alo..ahi) \X (blo..bhi) |->
                        common_run(a, b, p[1], ahi, p[2], bhi)])

\* SequenceMatcher(None, a, b).ratio() as the fraction <<2 * M, T>>
ratio(a, b) ==
    IF Len(a) + Len(b) = 0 THEN <<1, 1>>
    ELSE <<2 * matching_size(a, b, 1, Len(a), 1, Len(b)), Len(a) + Len(b)>>

\* r >= n / d and r > q for fractions
AtLeast(r, n, d) == r[1] * d >= n * r[2]
Above(r, q) == r[1] * q[2] > q[1] * r[2]

\* difflib.get_close_matches(word, possibilities, n=1, cutoff=n/d): of the
\* possibilities x with SequenceMatcher(a=x, b=word).ratio() >= cutoff, the
\* greatest pair (ratio, x): the best ratio, and of equal ratios the greatest
\* string. <<>> when there is none.
get_close_matches(word, possibilities, n, d) ==
    LET closest(score) ==
            LET good == {i \in 1..Len(possibilities) : AtLeast(score[i], n, d)}
                greater(i, j) ==
                    \/ Above(score[i], score[j])
                    \/ /\ ~Above(score[j], score[i])
                       /\ StrLess(possibilities[j], possibilities[i])
            IN IF good = {} THEN <<>>
               ELSE LET best == CHOOSE i \in good :
                                   \A j \in good : possibilities[j] = possibilities[i] \/ greater(i, j)
                    IN <<possibilities[best]>>
    IN closest([i \in 1..Len(possibilities) |-> ratio(possibilities[i], word)])

\* str.split(): the maximal runs of characters that are not whitespace
RECURSIVE split(_)
split(s) ==
    LET t == lstrip(s)
    IN IF t = <<>> THEN <<>>
       ELSE LET ends == {i \in 1..Len(t) : IsSpace(t[i])}
                n == IF ends = {} THEN Len(t) ELSE Min(ends) - 1
            IN <<SubSeq(t, 1, n)>> \o split(SubSeq(t, n + 1, Len(t)))

\* " ".join(tokens)
RECURSIVE join_blank(_)
join_blank(tokens) ==
    IF tokens = <<>> THEN <<>>
    ELSE IF Len(tokens) = 1 THEN tokens[1]
    ELSE tokens[1] \o <<" ">> \o join_blank(Tail(tokens))

\* sorted(tokens)
RECURSIVE sorted(_)
sorted(tokens) ==
    IF tokens = <<>> THEN <<>>
    ELSE LET least == CHOOSE i \in 1..Len(tokens) :
                         \A j \in 1..Len(tokens) :
                             ~StrLess(tokens[j], tokens[i]) /\ (tokens[j] = tokens[i] => i <= j)
             rest == [k \in 1..(Len(tokens) - 1) |->
                         IF k < least THEN tokens[k] ELSE tokens[k + 1]]
         IN <<tokens[least]>> \o sorted(rest)

\* fuzzywuzzy utils.full_process: what is not a letter or a digit becomes a
\* blank, then lower() and strip()
full_process(s) ==
    strip(lower([i \in 1..Len(s) |-> IF IsWord(s[i]) THEN s[i] ELSE " "]))

\* int(round(n / d)): the nearest integer, the even one of two
intr(n, d) ==
    LET q == n \div d
        r == n % d
    IN IF 2 * r > d THEN q + 1
       ELSE IF 2 * r < d THEN q
       ELSE IF q % 2 = 0 THEN q ELSE q + 1

\* fuzz.ratio of two processed strings: 100 for equal ones, 0 when one is
\* empty, else 100 times the SequenceMatcher ratio, rounded
fuzz_ratio(s1, s2) ==
    LET rounded(r) == intr(100 * r[1], r[2])
    IN IF s1 = s2 THEN 100
       ELSE IF s1 = <<>> \/ s2 = <<>> THEN 0
       ELSE rounded(ratio(s1, s2))

\* fuzz.token_sort_ratio as process.extractOne calls it: both strings through
\* full_process, their tokens sorted and joined
token_sort_ratio(s1, s2) ==
    fuzz_ratio(join_blank(sorted(split(full_process(s1)))),
               join_blank(sorted(split(full_process(s2)))))

\* process.extractOne(query, choices, scorer=fuzz.token_sort_ratio): the index
\* of the first choice with the highest score (choices is not empty)
extractOne(query, choices) ==
    LET first_best(score) ==
            CHOOSE i \in 1..Len(choices) :
                /\ \A j \in 1..Len(choices) : score[j] <= score[i]
                /\ \A j \in 1..(i - 1) : score[j] < score[i]
    IN first_best([j \in 1..Len(choices) |-> token_sort_ratio(query, choices[j])])

---------------------------------------------------------------------------
(* try_math of chatbot.py: eval() of a text made of digits, + - * / ( ) .  *)
(* and blanks.                                                             *)
(*                                                                         *)
(* A value is a record: an int n, a float n/d (d > 0), the empty tuple or  *)
(* Ellipsis. The floats of the model are the ones binary floating point    *)
(* holds exactly (d a power of two once reduced) and the decimal literals, *)
(* which only pass through unary signs and parentheses. Where the result   *)
(* depends on rounding (0.1 + 0.2, 1 / 3), on the sign of a float zero or  *)
(* on a power with a fractional exponent, the evaluation answers           *)
(* "unmodelled"; MathTexts holds no such text.                             *)

IntVal(n) == [k |-> "int", n |-> n, d |-> 1]
FloatVal(n, d) == [k |-> "float", n |-> n, d |-> d]
TupleVal == [k |-> "tuple", n |-> 0, d |-> 1]
EllipsisVal == [k |-> "ellipsis", n |-> 0, d |-> 1]
\* an exception (SyntaxError, TypeError, ZeroDivisionError)
ErrorVal == [k |-> "error", n |-> 0, d |-> 1]
UnmodelledVal == [k |-> "unmodelled", n |-> 0, d |-> 1]

IsDigit(c) == c \in {"0", "1", "2", "3", "4", "5", "6", "7", "8", "9"}

DigitVal(c) == CharCode(c) - CharCode("0")

DigitChar(n) == Alphabet[CharCode("0") + n]

Abs(n) == IF n < 0 THEN 0 - n ELSE n

RECURSIVE Gcd(_, _)
Gcd(a, b) == IF b = 0 THEN a ELSE Gcd(b, a % b)

RECURSIVE Pow(_, _)
Pow(b, e) == IF e = 0 THEN 1 ELSE b * Pow(b, e - 1)

RECURSIVE IsPowerOfTwo(_)
IsPowerOfTwo(n) == n = 1 \/ (n % 2 = 0 /\ IsPowerOfTwo(n \div 2))

\* the fraction n/d in lowest terms, d > 0
Reduced(n, d) ==
    LET g == Gcd(Abs(n), Abs(d))
        sgn == IF d < 0 THEN 0 - 1 ELSE 1
    IN <<sgn * (n \div g), sgn * (d \div g)>>

\* the value is held exactly by a binary float
Dyadic(v) == IsPowerOfTwo(Reduced(v.n, v.d)[2])

IsNum(v) == v.k \in {"int", "float"}

\* math.floor(n / d) for d > 0
Floor(n, d) == n \div d

\* int(digits)
RECURSIVE int_of(_)
int_of(digits) ==
    IF digits = <<>> THEN 0
    ELSE 10 * int_of(SubSeq(digits, 1, Len(digits) - 1)) + DigitVal(digits[Len(digits)])

\* the index after the run of digits that starts at i
RECURSIVE DigitsEnd(_, _)
DigitsEnd(s, i) == IF i <= Len(s) /\ IsDigit(s[i]) THEN DigitsEnd(s, i + 1) ELSE i

Tok(t) == [t |-> t, v |-> ErrorVal]
NumTok(v) == [t |-> "num", v |-> v]

\* the tokens of the text from index i on; "bad" where the tokenizer or the
\* grammar has no token. A literal is digits, digits "." digits, digits "."
\* or "." digits; an int literal starts with 0 only when it is all zeros.
RECURSIVE tokens(_, _)
tokens(s, i) ==
    IF i > Len(s) THEN <<>>
    ELSE LET c == s[i]
             nxt == IF i < Len(s) THEN s[i + 1] ELSE " "
         IN CASE c = " " -> tokens(s, i + 1)
              [] IsDigit(c) \/ (c = "." /\ IsDigit(nxt)) ->
                    LET e1 == DigitsEnd(s, i)
                        point == e1 <= Len(s) /\ s[e1] = "."
                        e2 == IF point THEN DigitsEnd(s, e1 + 1) ELSE e1
                        whole == SubSeq(s, i, e1 - 1)
                        frac == IF point THEN SubSeq(s, e1 + 1, e2 - 1) ELSE <<>>
                        tok == IF point
                               THEN NumTok(FloatVal(int_of(whole \o frac), Pow(10, Len(frac))))
                               ELSE IF Len(whole) > 1 /\ whole[1] = "0" /\ int_of(whole) # 0
                                    THEN Tok("bad")
                                    ELSE NumTok(IntVal(int_of(whole)))
                    IN <<tok>> \o tokens(s, e2)
              [] c = "." ->
                    IF i + 2 <= Len(s) /\ s[i + 1] = "." /\ s[i + 2] = "."
                    THEN <<Tok("...")>> \o tokens(s, i + 3)
                    ELSE <<Tok("bad")>>
              [] c = "*" /\ nxt = "*" -> <<Tok("**")>> \o tokens(s, i + 2)
              [] c = "/" /\ nxt = "/" -> <<Tok("//")>> \o tokens(s, i + 2)
              [] c \in {"+", "-", "*", "/", "(", ")"} -> <<Tok(c)>> \o tokens(s, i + 1)
              [] OTHER -> <<Tok("bad")>>

\* a float result: unmodelled unless both operands and the result are exact,
\* and unless a zero could carry a minus sign
FloatResult(x, y, n, d, signed_zero) ==
    IF ~Dyadic(x) \/ ~Dyadic(y) \/ ~IsPowerOfTwo(Reduced(n, d)[2]) THEN UnmodelledVal
    ELSE IF n = 0 /\ signed_zero /\ (x.n < 0 \/ y.n < 0) THEN UnmodelledVal
    ELSE FloatVal(Reduced(n, d)[1], Reduced(n, d)[2])

Propagate(x, y) ==
    IF x.k = "error" \/ y.k = "error" THEN ErrorVal ELSE UnmodelledVal

Exceptional(x, y) == {x.k, y.k} \cap {"error", "unmodelled"} # {}

py_add(x, y) ==
    IF Exceptional(x, y) THEN Propagate(x, y)
    ELSE IF x.k = "tuple" /\ y.k = "tuple" THEN TupleVal
    ELSE IF ~(IsNum(x) /\ IsNum(y)) THEN ErrorVal
    ELSE IF x.k = "int" /\ y.k = "int" THEN IntVal(x.n + y.n)
    ELSE FloatResult(x, y, x.n * y.d + y.n * x.d, x.d * y.d, FALSE)

py_neg(x) ==
    IF x.k \in {"error", "unmodelled"} THEN x
    ELSE IF ~IsNum(x) THEN ErrorVal
    ELSE IF x.k = "int" THEN IntVal(0 - x.n)
    ELSE IF x.n = 0 THEN UnmodelledVal
    ELSE FloatVal(0 - x.n, x.d)

py_pos(x) ==
    IF x.k \in {"error", "unmodelled"} THEN x
    ELSE IF ~IsNum(x) THEN ErrorVal
    ELSE x

py_sub(x, y) ==
    IF Exceptional(x, y) THEN Propagate(x, y)
    ELSE IF ~(IsNum(x) /\ IsNum(y)) THEN ErrorVal
    ELSE IF x.k = "int" /\ y.k = "int" THEN IntVal(x.n - y.n)
    ELSE FloatResult(x, y, x.n * y.d - y.n * x.d, x.d * y.d, FALSE)

py_mul(x, y) ==
    IF Exceptional(x, y) THEN Propagate(x, y)
    ELSE IF {x.k, y.k} = {"tuple", "int"} THEN TupleVal
    ELSE IF ~(IsNum(x) /\ IsNum(y)) THEN ErrorVal
    ELSE IF x.k = "int" /\ y.k = "int" THEN IntVal(x.n * y.n)
    ELSE FloatResult(x, y, x.n * y.n, x.d * y.d, TRUE)

py_truediv(x, y) ==
    IF Exceptional(x, y) THEN Propagate(x, y)
    ELSE IF ~(IsNum(x) /\ IsNum(y)) THEN ErrorVal
    ELSE IF y.n = 0 THEN ErrorVal
    ELSE FloatResult(x, y, x.n * y.d, x.d * y.n, TRUE)

py_floordiv(x, y) ==
    IF Exceptional(x, y) THEN Propagate(x, y)
    ELSE IF ~(IsNum(x) /\ IsNum(y)) THEN ErrorVal
    ELSE IF y.n = 0 THEN ErrorVal
    ELSE LET q == Reduced(x.n * y.d, x.d * y.n)
             fl == Floor(q[1], q[2])
         IN IF x.k = "int" /\ y.k = "int" THEN IntVal(fl)
            ELSE FloatResult(x, y, fl, 1, TRUE)

py_pow(x, y) ==
    IF Exceptional(x, y) THEN Propagate(x, y)
    ELSE IF ~(IsNum(x) /\ IsNum(y)) THEN ErrorVal
    ELSE IF x.k = "int" /\ y.k = "int"
         THEN IF y.n >= 0 THEN IntVal(Pow(x.n, y.n))
              ELSE IF x.n = 0 THEN ErrorVal
              ELSE FloatResult(x, y, 1, Pow(x.n, 0 - y.n), TRUE)
    ELSE UnmodelledVal

\* The parser. A result is the value and the index of the next token. The
\* grammar of the expressions these tokens can form:
\*   arith  : term (("+" | "-") term)*
\*   term   : factor (("*" | "/" | "//") factor)*
\*   factor : ("+" | "-") factor | power
\*   power  : atom ["**" factor]
\*   atom   : number | "..." | "(" ")" | "(" arith ")"
\* An atom followed by "(" is a call of a value that is not callable: an
\* exception in any case.
Parsed(v, i) == [v |-> v, i |-> i]

TokAt(toks, i) == IF i <= Len(toks) THEN toks[i].t ELSE "end"

RECURSIVE p_arith(_, _)
RECURSIVE p_arith_rest(_, _)
RECURSIVE p_term(_, _)
RECURSIVE p_term_rest(_, _)
RECURSIVE p_factor(_, _)
RECURSIVE p_power(_, _)
RECURSIVE p_atom(_, _)

p_atom(toks, i) ==
    LET t == TokAt(toks, i)
        closed(e) == IF e.v.k # "error" /\ TokAt(toks, e.i) = ")"
                     THEN Parsed(e.v, e.i + 1)
                     ELSE Parsed(ErrorVal, e.i)
        called(r) == IF r.v.k # "error" /\ TokAt(toks, r.i) = "("
                     THEN Parsed(ErrorVal, r.i)
                     ELSE r
    IN called(IF t = "num" THEN Parsed(toks[i].v, i + 1)
              ELSE IF t = "..." THEN Parsed(EllipsisVal, i + 1)
              ELSE IF t = "(" /\ TokAt(toks, i + 1) = ")" THEN Parsed(TupleVal, i + 2)
              ELSE IF t = "(" THEN closed(p_arith(toks, i + 1))
              ELSE Parsed(ErrorVal, i))

p_power(toks, i) ==
    LET raised(a, f) == Parsed(py_pow(a.v, f.v), f.i)
        power(a) == IF a.v.k = "error" \/ TokAt(toks, a.i) # "**" THEN a
                    ELSE raised(a, p_factor(toks, a.i + 1))
    IN power(p_atom(toks, i))

p_factor(toks, i) ==
    LET signed(f) == Parsed(IF TokAt(toks, i) = "-" THEN py_neg(f.v) ELSE py_pos(f.v), f.i)
    IN IF TokAt(toks, i) \in {"+", "-"} THEN signed(p_factor(toks, i + 1))
       ELSE p_power(toks, i)

p_term_rest(toks, acc) ==
    LET t == TokAt(toks, acc.i)
        v(f) == CASE t = "*" -> py_mul(acc.v, f.v)
                  [] t = "/" -> py_truediv(acc.v, f.v)
                  [] OTHER -> py_floordiv(acc.v, f.v)
        rest(f) == p_term_rest(toks, Parsed(IF f.v.k = "error" THEN ErrorVal ELSE v(f), f.i))
    IN IF acc.v.k = "error" \/ t \notin {"*", "/", "//"} THEN acc
       ELSE rest(p_factor(toks, acc.i + 1))

p_term(toks, i) == p_term_rest(toks, p_factor(toks, i))

p_arith_rest(toks, acc) ==
    LET t == TokAt(toks, acc.i)
        v(f) == IF t = "+" THEN py_add(acc.v, f.v) ELSE py_sub(acc.v, f.v)
        rest(f) == p_arith_rest(toks, Parsed(IF f.v.k = "error" THEN ErrorVal ELSE v(f), f.i))
    IN IF acc.v.k = "error" \/ t \notin {"+", "-"} THEN acc
       ELSE rest(p_term(toks, acc.i + 1))

p_arith(toks, i) == p_arith_rest(toks, p_term(toks, i))

\* eval(text, {"__builtins__": {}}): ErrorVal for any exception
py_eval(text) ==
    LET value(toks, r) ==
            IF \E i \in 1..Len(toks) : toks[i].t = "bad" THEN ErrorVal
            ELSE IF r.v.k = "error" \/ r.i # Len(toks) + 1 THEN ErrorVal
            ELSE r.v
        parsed(toks) == value(toks, p_arith(toks, 1))
    IN parsed(tokens(text, 1))

\* str(n) for n >= 0
RECURSIVE digits_of(_)
digits_of(n) ==
    IF n < 10 THEN <<DigitChar(n)>> ELSE digits_of(n \div 10) \o <<DigitChar(n % 10)>>

\* the digits of the fraction r/d < 1 that has a finite expansion
RECURSIVE fraction_digits(_, _)
fraction_digits(r, d) ==
    IF r = 0 THEN <<>>
    ELSE <<DigitChar((10 * r) \div d)>> \o fraction_digits((10 * r) % d, d)

\* str(value)
py_str(v) ==
    CASE v.k = "int" ->
            (IF v.n < 0 THEN <<"-">> ELSE <<>>) \o digits_of(Abs(v.n))
      [] v.k = "float" ->
            LET a == Abs(v.n)
                fr == fraction_digits(a % v.d, v.d)
            IN (IF v.n < 0 THEN <<"-">> ELSE <<>>) \o digits_of(a \div v.d) \o <<".">>
               \o (IF fr = <<>> THEN <<"0">> ELSE fr)
      [] v.k = "tuple" -> <<"(", ")">>
      [] v.k = "ellipsis" -> <<"E", "l", "l", "i", "p", "s", "i", "s">>
      [] OTHER -> <<"unmodelled">>

\* whether s[i..] starts with word
StartsAt(s, i, word) ==
    i + Len(word) - 1 <= Len(s) /\ SubSeq(s, i, i + Len(word) - 1) = word

\* s[i..].replace(old, new), old not empty
RECURSIVE replace_from(_, _, _, _)
replace_from(s, i, old, new) ==
    IF i > Len(s) THEN <<>>
    ELSE IF StartsAt(s, i, old) THEN new \o replace_from(s, i + Len(old), old, new)
    ELSE <<s[i]>> \o replace_from(s, i + 1, old, new)

replace(s, old, new) == replace_from(s, 1, old, new)

\* the replacements of try_math, in the order of the dict
replacements ==
    << <<<<"p", "l", "u", "s">>, <<"+">>>>,
       <<<<"m", "i", "n", "u", "s">>, <<"-">>>>,
       <<<<"t", "i", "m", "e", "s">>, <<"*">>>>,
       <<<<"x">>, <<"*">>>>,
       <<<<"d", "i", "v", "i", "d", "e", "d", " ", "b", "y">>, <<"/">>>> >>

RECURSIVE replace_all(_, _)
replace_all(text, n) ==
    IF n = 0 THEN text
    ELSE replace(replace_all(text, n - 1), replacements[n][1], replacements[n][2])

\* re.fullmatch(r"[0-9+\-*/ ().]+", text)
math_filter(text) ==
    /\ text # <<>>
    /\ \A i \in 1..Len(text) :
          IsDigit(text[i]) \/ text[i] \in {"+", "-", "*", "/", " ", "(", ")", "."}

\* what a function returns: None, a str, or an exception that leaves it
None == [kind |-> "none", text |-> <<>>]
Str(text) == [kind |-> "str", text |-> text]
Raised == [kind |-> "raised", text |-> <<>>]

\* a variant without the except clause
try_math_without_except(input_text) ==
    LET result(v) == IF v.k = "error" THEN Raised ELSE Str(py_str(v))
        evaluated(text) == IF ~math_filter(text) THEN None ELSE result(py_eval(text))
    IN evaluated(replace_all(lower(input_text), Len(replacements)))

try_math(input_text) ==
    LET result(v) == IF v.k = "error" THEN None ELSE Str(py_str(v))
        evaluated(text) == IF ~math_filter(text) THEN None ELSE result(py_eval(text))
    IN evaluated(replace_all(lower(input_text), Len(replacements)))

---------------------------------------------------------------------------
(* answer_question of chatbot.py, and /chat of V1/webui.py.                *)
(*                                                                         *)
(* recent_phrase_responses is the window argument of the operators, and    *)
(* each returns the window it leaves. A sentence the code has as a literal *)
(* is a text of one element.                                               *)

T_c == <<"c">>
T_d == <<"d">>
T_e == <<"e">>
T_f == <<"f">>
T_train == <<"t", "r", "a", "i", "n">>
T_color == <<"c", "o", "l", "o", "r">>
T_has_color == <<"h", "a", "s", "_", "c", "o", "l", "o", "r">>

\* len(recent_phrase_responses) > 5
WindowSize == 5

\* threshold=75 of answer_phrase
PhraseThreshold == 75

\* bool(x) of what a function returned
Truthy(r) == r.kind = "str" /\ r.text # <<>>

\* the triggers of a phrase entry, as answer_phrase gathers them
triggers_of(entry) ==
    IF "inputs" \in DOMAIN entry THEN entry.inputs
    ELSE IF "input" \in DOMAIN entry THEN <<entry.input>>
    ELSE <<>>

RECURSIVE trigger_response_pairs(_)
trigger_response_pairs(knowledge) ==
    IF knowledge = <<>> THEN <<>>
    ELSE LET entry == Head(knowledge)
         IN (IF entry.type = "phrase"
             THEN [i \in 1..Len(triggers_of(entry)) |-> <<triggers_of(entry)[i], entry.outputs>>]
             ELSE <<>>)
            \o trigger_response_pairs(Tail(knowledge))

\* a variant that never drops the oldest response
push_recent_without_pop(window, resp) ==
    Append(window, resp)

\* recent_phrase_responses.append(resp), then pop(0) when longer than 5
push_recent(window, resp) ==
    IF Len(Append(window, resp)) > WindowSize THEN Tail(Append(window, resp))
    ELSE Append(window, resp)

\* the pair answer_phrase takes the outputs from: the first one whose trigger
\* is the best match, 0 when there is no trigger or the score is under the
\* threshold
matched_pair(knowledge, user_input) ==
    LET matched(pairs, triggers) ==
            LET chosen(best) ==
                    IF token_sort_ratio(user_input, triggers[best]) < PhraseThreshold THEN 0
                    ELSE Min({i \in 1..Len(pairs) : pairs[i][1] = triggers[best]})
            IN IF triggers = <<>> THEN 0
               ELSE chosen(extractOne(user_input, triggers))
        paired(pairs) == matched(pairs, [i \in 1..Len(pairs) |-> pairs[i][1]])
    IN paired(trigger_response_pairs(knowledge))

\* a variant that gives the first output without a look at the window, and
\* pushes it
select_response_ignoring_window(window, outputs) ==
    IF outputs = <<>> THEN [result |-> Raised, recent |-> window]
    ELSE [result |-> Str(outputs[1]), recent |-> push_recent(window, outputs[1])]

\* the loop over the outputs of the matched phrase (the same loop is in
\* answer_phrase of main.py): the first output that is not in the window,
\* pushed, else outputs[0], which raises IndexError for no output
select_response(window, outputs) ==
    LET fresh == {i \in 1..Len(outputs) : outputs[i] \notin Range(window)}
    IN IF fresh # {}
       THEN [result |-> Str(outputs[Min(fresh)]),
             recent |-> push_recent(window, outputs[Min(fresh)])]
       ELSE IF outputs = <<>> THEN [result |-> Raised, recent |-> window]
       ELSE [result |-> Str(outputs[1]), recent |-> window]

answer_phrase(knowledge, window, user_input) ==
    LET matched(k) ==
            IF k = 0 THEN [result |-> None, recent |-> window]
            ELSE select_response(window, trigger_response_pairs(knowledge)[k][2])
    IN matched(matched_pair(knowledge, user_input))

\* [entry["input"] for entry in kb["knowledge"] if entry["type"] == "example"]
RECURSIVE example_inputs(_)
example_inputs(knowledge) ==
    IF knowledge = <<>> THEN <<>>
    ELSE (IF Head(knowledge).type = "example" THEN <<Head(knowledge).input>> ELSE <<>>)
         \o example_inputs(Tail(knowledge))

\* the output of the first example with this input
example_output(knowledge, input) ==
    knowledge[Min({i \in 1..Len(knowledge) :
                      knowledge[i].type = "example" /\ knowledge[i].input = input})].output

answer_example(knowledge, user_input) ==
    LET close(matches) ==
            IF matches # <<>> THEN Str(example_output(knowledge, matches[1])) ELSE None
        answer(user_input_lower) ==
            IF \E i \in 1..Len(knowledge) :
                  knowledge[i].type = "example" /\ knowledge[i].input = user_input_lower
            THEN Str(example_output(knowledge, user_input_lower))
            ELSE close(get_close_matches(user_input_lower, example_inputs(knowledge), 7, 10))
    IN answer(strip(lower(user_input)))

\* the length of the run of word characters s starts with
RECURSIVE WordEnd(_, _)
WordEnd(s, i) == IF i <= Len(s) /\ IsWord(s[i]) THEN WordEnd(s, i + 1) ELSE i - 1

\* re.findall(r"\b\w+\b", s): the maximal runs of word characters
RECURSIVE findall_words(_)
findall_words(s) ==
    IF s = <<>> THEN <<>>
    ELSE IF ~IsWord(s[1]) THEN findall_words(Tail(s))
    ELSE <<SubSeq(s, 1, WordEnd(s, 1))>> \o findall_words(SubSeq(s, WordEnd(s, 1) + 1, Len(s)))

tokenize(text) == findall_words(lower(text))

\* re.sub(r"\b(the|a|an)\b", "", s, flags=re.IGNORECASE)
RECURSIVE sub_articles(_)
sub_articles(s) ==
    IF s = <<>> THEN <<>>
    ELSE IF ~IsWord(s[1]) THEN <<s[1]>> \o sub_articles(Tail(s))
    ELSE LET w == SubSeq(s, 1, WordEnd(s, 1))
         IN (IF lower(w) \in {<<"t", "h", "e">>, <<"a">>, <<"a", "n">>} THEN <<>> ELSE w)
            \o sub_articles(SubSeq(s, WordEnd(s, 1) + 1, Len(s)))

remove_articles(text) == strip(sub_articles(text))

\* re.search(prefix + "(.+)", text).group(1): the rest of the line after the
\* first place the prefix stands before a character; None when there is none
search_rest(text, prefix) ==
    LET starts == {i \in 1..Len(text) :
                      /\ StartsAt(text, i, prefix)
                      /\ i + Len(prefix) <= Len(text)
                      /\ text[i + Len(prefix)] # NL}
        from == Min(starts) + Len(prefix)
        breaks == {j \in from..Len(text) : text[j] = NL}
    IN IF starts = {} THEN None
       ELSE Str(SubSeq(text, from, IF breaks = {} THEN Len(text) ELSE Min(breaks) - 1))

\* qtype, subject and predicate (obj is None on every return)
parse_question(input_text) ==
    LET wh_words == { <<"w", "h", "a", "t">>, <<"w", "h", "o">>, <<"w", "h", "e", "r", "e">>,
                      <<"w", "h", "e", "n">>, <<"w", "h", "y">>, <<"h", "o", "w">> }
        searched(toks, color, plain) ==
            IF toks = <<>> \/ toks[1] \notin wh_words
            THEN [qtype |-> "none", subject |-> None, predicate |-> <<>>]
            ELSE IF T_color \in Range(toks) /\ color.kind = "str"
                 THEN [qtype |-> "wh", subject |-> Str(remove_articles(strip(color.text))),
                       predicate |-> T_has_color]
            ELSE IF T_color \notin Range(toks) /\ plain.kind = "str"
                 THEN [qtype |-> "wh", subject |-> Str(remove_articles(strip(plain.text))),
                       predicate |-> <<>>]
            ELSE [qtype |-> "wh", subject |-> None, predicate |-> <<>>]
        parsed(text) ==
            searched(tokenize(text),
                     search_rest(text, <<"w", "h", "a", "t", " ", "c", "o", "l", "o", "r", " ", "i", "s", " ">>),
                     search_rest(text, <<"w", "h", "a", "t", " ", "i", "s", " ">>))
    IN parsed(strip(lower(input_text)))

\* the contents of the facts and concepts that share a token with the tokens
RECURSIVE facts_sharing(_, _)
facts_sharing(knowledge, toks) ==
    IF knowledge = <<>> THEN <<>>
    ELSE (IF /\ Head(knowledge).type \in {"fact", "concept"}
             /\ (toks \cap Range(tokenize(Head(knowledge).content))) # {}
          THEN <<Head(knowledge).content>> ELSE <<>>)
         \o facts_sharing(Tail(knowledge), toks)

find_facts_or_concepts(knowledge, input_text) ==
    facts_sharing(knowledge, Range(tokenize(input_text)))

\* find_association(kb, subject=subject, predicate=predicate): an empty
\* subject or predicate filters nothing
RECURSIVE find_association(_, _, _)
find_association(knowledge, subject, predicate) ==
    IF knowledge = <<>> THEN <<>>
    ELSE (IF /\ Head(knowledge).type = "association"
             /\ (subject = <<>> \/ Head(knowledge).content.subject = subject)
             /\ (predicate = <<>> \/ Head(knowledge).content.predicate = predicate)
          THEN <<Head(knowledge).content>> ELSE <<>>)
         \o find_association(Tail(knowledge), subject, predicate)

\* answer_question from the phrase check on: what the knowledge base answers
answer_knowledge(knowledge, window, input_text) ==
    LET first_or(found, otherwise) == IF found # <<>> THEN found[1] ELSE otherwise
        object_or(matches, otherwise) == IF matches # <<>> THEN matches[1].object ELSE otherwise
        known(q, facts) ==
            IF q.qtype = "wh" /\ q.subject.kind = "none"
            THEN first_or(facts, <<"I don't know.">>)
            ELSE IF q.qtype = "wh" /\ q.predicate # <<>>
                 THEN object_or(find_association(knowledge, q.subject.text, q.predicate),
                                <<"I don't know the ">> \o replace(q.predicate, <<"_">>, <<" ">>)
                                \o <<" of ">> \o q.subject.text \o <<".">>)
            ELSE IF q.qtype = "wh"
                 THEN first_or(facts_sharing(knowledge, Range(tokenize(q.subject.text))),
                               <<"I don't know about ">> \o q.subject.text \o <<".">>)
            ELSE first_or(facts, <<"I don't know the answer to that.">>)
        text(example_answer) ==
            IF Truthy(example_answer) THEN example_answer.text
            ELSE known(parse_question(input_text), find_facts_or_concepts(knowledge, input_text))
        answered(phrase_answer) ==
            IF phrase_answer.result.kind = "raised" \/ Truthy(phrase_answer.result)
            THEN phrase_answer
            ELSE [result |-> Str(text(answer_example(knowledge, input_text))),
                  recent |-> phrase_answer.recent]
    IN answered(answer_phrase(knowledge, window, input_text))

answer_question(knowledge, window, input_text) ==
    LET answered(math_result) ==
            IF math_result.kind = "raised" THEN [result |-> Raised, recent |-> window]
            ELSE IF math_result.kind # "none" THEN [result |-> math_result, recent |-> window]
            ELSE answer_knowledge(knowledge, window, input_text)
    IN answered(try_math(input_text))

\* POST /chat: the status and the reply, and the window it leaves. An exception
\* that leaves answer_question is a 500 of Flask.
chat_result(knowledge, window, user_msg) ==
    LET sent(r) ==
            IF r.result.kind = "raised"
            THEN [status |-> 500, recent |-> r.recent, reply |-> <<>>]
            ELSE [status |-> 200, recent |-> r.recent, reply |-> r.result.text]
    IN IF lower(strip(user_msg)) = T_train
       THEN [status |-> 200, recent |-> window,
             reply |-> <<"Training mode opened in the web UI. Use the Train button or type 'train' in the input.">>]
       ELSE sent(answer_question(knowledge, window, user_msg))

T_1_0 == <<"1", "/", "0">>

\* the phrases the chat of the model is taught
AnswerPayloads ==
    { [type |-> "phrase", input |-> T_hi, outputs |-> <<T_a, T_b>>],
      [type |-> "phrase", input |-> T_1_0, outputs |-> <<T_c, T_d, T_e, T_f>>] }

\* the messages posted to /chat
ChatMessages ==
    {T_hi, T_1_0, <<"2", "*", "*", "3">>, T_yo, T_train}

---------------------------------------------------------------------------
(* Chat requests: what the state keeps of them.                            *)

\* no chat request was answered yet
NoReply == [by |-> "none"]

---------------------------------------------------------------------------
(* Reads of the grouped store.                                             *)

\* SELECT question FROM questions WHERE group_id=? ORDER BY id
QuestionsOf(d, gid) ==
    LET rows == SelectSeq(d.questions, LAMBDA r : r.group_id = gid)
    IN [k \in 1..Len(rows) |-> rows[k].question]

\* SELECT answer FROM answers WHERE group_id=? ORDER BY id
AnswersOf(d, gid) ==
    LET rows == SelectSeq(d.answers, LAMBDA r : r.group_id = gid)
    IN [k \in 1..Len(rows) |-> rows[k].answer]

\* what get_group_by_id returns for no group
NoGroup == [id |-> 0]

get_group_by_id(d, gid) ==
    IF gid \notin GroupIds(d) THEN NoGroup
    ELSE LET g == CHOOSE r \in Range(d.groups) : r.id = gid
         IN [id |-> gid, name |-> g.name,
             inputs |-> QuestionsOf(d, gid), outputs |-> AnswersOf(d, gid)]

\* the groups, ORDER BY id DESC
get_all_groups(d) ==
    [k \in 1..Len(d.groups) |-> get_group_by_id(d, d.groups[Len(d.groups) + 1 - k].id)]

---------------------------------------------------------------------------
(* /api/chat of V2/chat.py.                                                *)

\* what api_chat answers for a piece that matches no trigger, and for a piece
\* whose group has no answer
Fallback == <<"I don't know that yet. Add it in Q&A.">>
NoAnswers == <<"I know that question but don't have answers yet.">>

\* the stripped sentences of the paragraphs, the empty ones left out
RECURSIVE pieces_of(_)
pieces_of(paragraphs) ==
    IF paragraphs = <<>> THEN <<>>
    ELSE LET sents == split_into_sentences(Head(paragraphs))
             stripped == [i \in 1..Len(sents) |-> strip(sents[i])]
         IN SelectSeq(stripped, LAMBDA t : t # <<>>) \o pieces_of(Tail(paragraphs))

\* the keys of norm_map in the order they were put in: the normalized
\* triggers that are not empty, each once, in the order of the rows
RECURSIVE norm_keys(_, _)
norm_keys(rows, seen) ==
    IF rows = <<>> THEN seen
    ELSE norm_keys(Tail(rows),
                   IF Head(rows).question_norm = <<>> \/ Head(rows).question_norm \in Range(seen)
                   THEN seen ELSE Append(seen, Head(rows).question_norm))

norm_list(d) == norm_keys(d.questions, <<>>)

\* norm_map[norm]: the group and the trigger of the first row with this norm
norm_map(d, norm) ==
    LET r == d.questions[Min({i \in 1..Len(d.questions) : d.questions[i].question_norm = norm})]
    IN [gid |-> r.group_id, question |-> r.question]

\* a variant without cutoff: the closest trigger, however far it is
best_match_without_cutoff(d, user_norm) ==
    get_close_matches(user_norm, norm_list(d), 0, 1)

\* get_close_matches(user_norm, norm_list, n=1, cutoff=0.5)
best_match(d, user_norm) ==
    get_close_matches(user_norm, norm_list(d), 1, 2)

\* (piece, gid, orig_q) for each piece; gid 0 is None
find_best_matches_for_message(d, user_message) ==
    IF user_message = <<>> THEN <<>>
    ELSE LET pieces == pieces_of(split_paragraphs(user_message))
             unmatched(piece) == [piece |-> piece, gid |-> 0, question |-> <<>>]
         IN [i \in 1..Len(pieces) |->
                LET best == best_match(d, normalize_text(pieces[i]))
                IN IF norm_list(d) = <<>> \/ best = <<>> THEN unmatched(pieces[i])
                   ELSE [piece |-> pieces[i], gid |-> norm_map(d, best[1]).gid,
                         question |-> norm_map(d, best[1]).question]]

\* a variant that draws before it looks whether there is an answer
get_random_answer_for_group_without_check(d, gid) ==
    IF AnswersOf(d, gid) = <<>> THEN {Raised}
    ELSE {Str(a) : a \in Range(AnswersOf(d, gid))}

\* what get_random_answer_for_group can return: None for no answer, else any
\* of the answers (random.choice)
get_random_answer_for_group(d, gid) ==
    IF AnswersOf(d, gid) = <<>> THEN {None}
    ELSE {Str(a) : a \in Range(AnswersOf(d, gid))}

\* what api_chat can append to replies for one match
piece_replies(d, match) ==
    IF match.gid = 0 THEN {Str(Fallback)}
    ELSE {IF answer.kind = "raised" THEN Raised
          ELSE IF Truthy(answer) THEN answer
          ELSE Str(NoAnswers) : answer \in get_random_answer_for_group(d, match.gid)}

\* the lists replies can be after the loop over the matches
RECURSIVE replies_of(_, _)
replies_of(d, matches) ==
    IF matches = <<>> THEN {<<>>}
    ELSE {<<first>> \o rest : first \in piece_replies(d, Head(matches)),
                            rest \in replies_of(d, Tail(matches))}

RECURSIVE join_replies(_)

\* a variant that sends back the first reply only
join_replies_first_only(replies) ==
    IF replies = <<>> THEN <<>> ELSE replies[1].text

\* '\n\n'.join(replies)
join_replies(replies) ==
    IF replies = <<>> THEN <<>>
    ELSE IF Len(replies) = 1 THEN replies[1].text
    ELSE replies[1].text \o <<NL, NL>> \o join_replies(Tail(replies))

\* data.get('message') or '', stripped
message_of(message_raw) == IF NotRaw(message_raw) THEN <<>> ELSE strip(message_raw.val)

\* POST /api/chat: the answers the request can get. An exception that leaves
\* the handler is a 500 of Flask.
api_chat_results(d, message_raw) ==
    LET msg == message_of(message_raw)
        matches == find_best_matches_for_message(d, msg)
    IN IF msg = <<>>
       THEN {[status |-> 400, matches |-> <<>>, replies |-> <<>>, reply |-> <<>>]}
       ELSE {IF \E i \in 1..Len(replies) : replies[i].kind = "raised"
             THEN [status |-> 500, matches |-> matches, replies |-> <<>>, reply |-> <<>>]
             ELSE [status |-> 200, matches |-> matches,
                   replies |-> [i \in 1..Len(replies) |-> replies[i].text],
                   reply |-> join_replies(replies)] : replies \in replies_of(d, matches)}

\* the groups the chat of the model is asked about: two answers for hi, the
\* triggers hi and hi! without an answer, one answer for yo
ChatBodies ==
    { [name |-> T_a, inputs |-> ListRaw(<<T_hi>>), outputs |-> ListRaw(<<T_a, T_b>>)],
      [name |-> <<>>, inputs |-> TextRaw(T_hi \o <<NL, " ", NL>> \o T_hi \o <<"!">>),
       outputs |-> NoneRaw],
      [name |-> <<>>, inputs |-> ListRaw(<<T_yo>>), outputs |-> ListRaw(<<T_c>>)] }

\* the bodies posted to /api/chat: no message, a blank one, one piece, two
\* sentences, and twice two paragraphs, the second of two sentences (ho is as
\* close to hi and to yo as the cutoff asks, b is close to nothing)
ChatRaws ==
    { NoneRaw,
      TextRaw(<<" ", NL>>),
      TextRaw(T_hi),
      TextRaw(<<"H", "i", "!", " ", "y", "o">>),
      TextRaw(<<"y", "o", ".", NL, " ", NL, "h", "o", "?", " ", "b", " ">>),
      TextRaw(<<"h", "i", ".", NL, NL, "y", "o", "!", " ", "b">>) }

---------------------------------------------------------------------------
(* GET /api/groups of V2/chat.py: the groups, filtered by similarity.       *)

\* similarity(a, b) as a fraction: 1.0 for two empty texts, 0.0 when one of
\* the normalized texts is empty, else the ratio of the normalized texts
similarity(a, b) ==
    LET scored(a_n, b_n) ==
            IF a_n = <<>> \/ b_n = <<>> THEN <<0, 1>> ELSE ratio(a_n, b_n)
    IN IF a = <<>> /\ b = <<>> THEN <<1, 1>>
       ELSE scored(normalize_text(a), normalize_text(b))

T_group == <<"g", "r", "o", "u", "p">>
T_input == <<"i", "n", "p", "u", "t">>
T_output == <<"o", "u", "t", "p", "u", "t">>
T_all == <<"a", "l", "l">>

\* max(best_score, similarity(q, text)) over the texts, from 0.0
RECURSIVE max_similarity(_, _, _)
max_similarity(best_score, q, texts) ==
    LET greater(score) == IF Above(score, best_score) THEN score ELSE best_score
    IN IF texts = <<>> THEN best_score
       ELSE max_similarity(greater(similarity(q, Head(texts))), q, Tail(texts))

\* the texts of a group the scope compares the filter with
scope_texts(g, scope) ==
    IF scope = T_group THEN <<g.name>>
    ELSE IF scope = T_input THEN g.inputs
    ELSE IF scope = T_output THEN g.outputs
    ELSE <<g.name>> \o g.inputs \o g.outputs

best_score(g, q, scope) == max_similarity(<<0, 1>>, q, scope_texts(g, scope))

\* sorted(scored, key=lambda x: x[0], reverse=True): the greatest score first,
\* equal scores in the order they had
RECURSIVE sorted_by_score(_)
sorted_by_score(scored) ==
    LET first == CHOOSE i \in 1..Len(scored) :
                     /\ \A j \in 1..Len(scored) : ~Above(scored[j].score, scored[i].score)
                     /\ \A j \in 1..(i - 1) : Above(scored[i].score, scored[j].score)
    IN IF scored = <<>> THEN <<>>
       ELSE <<scored[first]>>
            \o sorted_by_score([k \in 1..(Len(scored) - 1) |->
                                  IF k < first THEN scored[k] ELSE scored[k + 1]])

\* THRESHOLD = 0.4
at_threshold(score) == AtLeast(score, 2, 5)

\* request.args.get(...) or default, for an argument that is absent or a text
arg_or(raw, default) == IF NotRaw(raw) THEN default ELSE raw.val

\* GET /api/groups: the groups of the answer and the score of each group
api_groups_get_result(d, filter_raw, scope_raw) ==
    LET filtered(q, scope, groups) ==
            LET scored == [k \in 1..Len(groups) |->
                              [score |-> best_score(groups[k], q, scope), g |-> groups[k]]]
                kept == SelectSeq(sorted_by_score(scored), LAMBDA x : at_threshold(x.score))
            IN IF q = <<>> THEN [q |-> q, scope |-> scope, scored |-> <<>>, groups |-> groups]
               ELSE [q |-> q, scope |-> scope, scored |-> scored,
                     groups |-> [k \in 1..Len(kept) |-> kept[k].g]]
    IN filtered(strip(arg_or(filter_raw, <<>>)), lower(arg_or(scope_raw, T_group)),
                get_all_groups(d))

\* the groups the search of the model is asked about: a name that is
\* punctuation, a name that is a word, triggers and answers
SearchBodies ==
    { [name |-> <<"?", "!">>, inputs |-> ListRaw(<<T_hi>>), outputs |-> ListRaw(<<T_a>>)],
      [name |-> T_hi, inputs |-> ListRaw(<<T_yo \o <<".">>>>), outputs |-> ListRaw(<<T_hi, T_b>>)],
      [name |-> <<>>, inputs |-> ListRaw(<<T_Hi \o <<"!">>>>), outputs |-> NoneRaw] }

\* the filters and the scopes of the searches
SearchFilters == {NoneRaw, TextRaw(<<"?", "!">>), TextRaw(<<" ", "h", "i">>), TextRaw(<<"h", "o">>)}
SearchScopes == {NoneRaw, TextRaw(T_input), TextRaw(T_output), TextRaw(T_all)}

---------------------------------------------------------------------------
(* Request threads. The server answers each request on a thread of its     *)
(* own; a thread of V2/chat.py has its own connection (flask.g) and takes   *)
(* db_lock around every access to the database.                            *)

Threads == {1, 2}

Idle == [at |-> "idle"]

\* a variant of the lock that never makes a thread wait
lock_always_free(l) == TRUE

\* threading.Lock: "with db_lock" goes on when no thread holds the lock
lock_free(l) == l = 0

ReadOps == {"get_all_groups", "get_group_by_id", "find_best_matches_for_message",
            "get_random_answer_for_group"}

WriteOps == {"create_group", "update_group", "delete_group"}

\* the bodies the threads write
ThreadBodies == {b \in GroupBodies : b.outputs # NoneRaw}

\* the calls a thread can make
ThreadCalls ==
    {[op |-> "create_group", gid |-> 0, body |-> b] : b \in ThreadBodies}
    \cup {[op |-> "update_group", gid |-> 1, body |-> b] : b \in ThreadBodies}
    \cup {[op |-> "delete_group", gid |-> 1]}
    \cup {[op |-> r, gid |-> 1] : r \in ReadOps}

\* the statements of a writing call
call_stmts(d, c) ==
    CASE c.op = "create_group" ->
            create_stmts(d, strip(c.body.name), c.body.inputs, c.body.outputs)
      [] c.op = "update_group" ->
            update_stmts(c.gid, strip(c.body.name), c.body.inputs, c.body.outputs)
      [] OTHER -> delete_stmts(c.gid)

\* what the SELECTs of a reading call give on the connection of the thread,
\* which sees the committed content of the file
call_reads(d, c) ==
    CASE c.op = "get_all_groups" -> get_all_groups(d)
      [] c.op = "get_group_by_id" -> <<get_group_by_id(d, c.gid)>>
      [] c.op = "find_best_matches_for_message" -> d.questions
      [] OTHER -> AnswersOf(d, c.gid)

---------------------------------------------------------------------------
(* Request threads of V1/webui.py: train_add runs add_or_merge_entry on    *)
(* the shared list kb without any lock. A thread can be suspended between  *)
(* the loop that looks for an equal entry and the write that follows it.   *)

\* the payloads the threads post
ThreadPayloads ==
    {p \in TrainPayloads : ~train_invalid(p) /\ p.type \in {"fact", "example"}}

\* the write add_or_merge_entry makes once its loop ended at entry i
\* (0: the loop found nothing)
merge_write(knowledge, new_entry, i) ==
    IF i = 0 THEN Append(knowledge, new_entry)
    ELSE IF new_entry.type = "phrase"
         THEN [knowledge EXCEPT ![i].outputs =
                   union_outputs(knowledge[i].outputs, new_entry.outputs)]
    ELSE IF new_entry.type = "example"
         THEN [knowledge EXCEPT ![i].output = new_entry.output]
    ELSE knowledge

---------------------------------------------------------------------------
(* The state machine.                                                      *)

Init ==
    /\ kb = <<>>
    /\ disk = <<>>
    /\ last = [op |-> "load", status |-> 200, branch |-> "none"]
    /\ db = EmptyDb
    /\ glast = [status |-> 200, updated |-> FALSE]
    /\ lock = 0
    /\ th = [t \in Threads |-> Idle]
    /\ recent = <<>>
    /\ reply = NoReply

\* webui.py starts: kb = chatbot.load_knowledge()
load(file) ==
    /\ kb' = load_knowledge(file)
    /\ last' = [op |-> "load", status |-> 200, branch |-> "none"]
    /\ reply' = NoReply
    /\ UNCHANGED <<disk, db, glast, lock, th, recent>>

train_add(payload, save_ok) ==
    /\ LET r == train_add_result(kb, disk, payload, save_ok)
       IN Len(r.kb) <= MaxKnowledge /\ kb' = r.kb /\ disk' = r.disk /\ last' = r.last
    /\ reply' = NoReply
    /\ UNCHANGED <<db, glast, lock, th, recent>>

training_session(typed, save_ok) ==
    /\ LET r == training_session_result(kb, disk, typed, save_ok)
       IN Len(r.kb) <= MaxKnowledge /\ kb' = r.kb /\ disk' = r.disk /\ last' = r.last
    /\ reply' = NoReply
    /\ UNCHANGED <<db, glast, lock, th, recent>>

api_groups_post(name, inputs_raw, outputs_raw, fail_at) ==
    /\ db.seq < MaxGroups
    /\ LET r == api_groups_post_result(db, name, inputs_raw, outputs_raw, fail_at)
       IN db' = r.db /\ glast' = r.glast
    /\ reply' = NoReply
    /\ UNCHANGED <<kb, disk, last, lock, th, recent>>

api_group_item_patch(gid, name, inputs_raw, outputs_raw, fail_at) ==
    /\ LET r == api_group_item_patch_result(db, gid, name, inputs_raw, outputs_raw, fail_at)
       IN db' = r.db /\ glast' = r.glast
    /\ reply' = NoReply
    /\ UNCHANGED <<kb, disk, last, lock, th, recent>>

api_group_item_delete(gid, fail_at) ==
    /\ LET r == api_group_item_delete_result(db, gid, fail_at)
       IN db' = r.db /\ glast' = r.glast
    /\ reply' = NoReply
    /\ UNCHANGED <<kb, disk, last, lock, th, recent>>

\* a thread of chat.py is handed a request
thread_call(t, c) ==
    /\ th[t].at = "idle"
    /\ c.op = "create_group" => db.seq < MaxGroups
    /\ th' = [th EXCEPT ![t] = [at |-> "acquire", call |-> c]]
    /\ UNCHANGED <<kb, disk, last, db, glast, lock, recent, reply>>

\* with db_lock: BEGIN for a write, nothing read yet for a read
thread_acquire(t) ==
    /\ th[t].at = "acquire"
    /\ lock_free(lock)
    /\ lock' = t
    /\ th' = [th EXCEPT ![t] =
                IF th[t].call.op \in WriteOps
                THEN [at |-> "transaction", call |-> th[t].call,
                      stmts |-> call_stmts(db, th[t].call), n |-> 0, working |-> db]
                ELSE [at |-> "select", call |-> th[t].call]]
    /\ UNCHANGED <<kb, disk, last, db, glast, recent, reply>>

\* the next statement of the transaction, on the connection of the thread
thread_execute(t) ==
    /\ th[t].at = "transaction"
    /\ th[t].n < Len(th[t].stmts)
    /\ th' = [th EXCEPT ![t].working = execute(@, th[t].stmts[th[t].n + 1]),
                        ![t].n = @ + 1]
    /\ UNCHANGED <<kb, disk, last, db, glast, lock, recent, reply>>

\* db.commit()
thread_commit(t) ==
    /\ th[t].at = "transaction"
    /\ th[t].n = Len(th[t].stmts)
    /\ db' = commit(db, th[t].working)
    /\ th' = [th EXCEPT ![t] = [at |-> "release", call |-> th[t].call]]
    /\ UNCHANGED <<kb, disk, last, glast, lock, recent, reply>>

\* the SELECTs of a read
thread_select(t) ==
    /\ th[t].at = "select"
    /\ th' = [th EXCEPT ![t] = [at |-> "release", call |-> th[t].call,
                                seen |-> call_reads(db, th[t].call)]]
    /\ UNCHANGED <<kb, disk, last, db, glast, lock, recent, reply>>

\* the end of the with block
thread_release(t) ==
    /\ th[t].at = "release"
    /\ lock' = 0
    /\ th' = [th EXCEPT ![t] = Idle]
    /\ UNCHANGED <<kb, disk, last, db, glast, recent, reply>>

\* a thread of webui.py is handed a valid /train/add request
web_request(t, payload) ==
    /\ th[t].at = "idle"
    /\ th' = [th EXCEPT ![t] = [at |-> "loop", entry |-> train_entry(payload)]]
    /\ UNCHANGED <<kb, disk, last, db, glast, lock, recent, reply>>

\* add_or_merge_entry: the for loop over kb["knowledge"]
web_loop(t) ==
    /\ th[t].at = "loop"
    /\ th' = [th EXCEPT ![t] = [at |-> "write", entry |-> th[t].entry,
                                target |-> merge_target(kb, th[t].entry)]]
    /\ UNCHANGED <<kb, disk, last, db, glast, lock, recent, reply>>

\* add_or_merge_entry: the append, or the write into the entry found
web_write(t) ==
    /\ th[t].at = "write"
    /\ Len(merge_write(kb, th[t].entry, th[t].target)) <= MaxKnowledge
    /\ kb' = merge_write(kb, th[t].entry, th[t].target)
    /\ th' = [th EXCEPT ![t] = [at |-> "save"]]
    /\ UNCHANGED <<disk, last, db, glast, lock, recent, reply>>

\* chatbot.save_knowledge(kb)
web_save(t) ==
    /\ th[t].at = "save"
    /\ disk' = save_knowledge(disk, kb, TRUE)
    /\ th' = [th EXCEPT ![t] = Idle]
    /\ UNCHANGED <<kb, last, db, glast, lock, recent, reply>>

Load == load(disk)

TrainAdd == \E p \in TrainPayloads, ok \in BOOLEAN : train_add(p, ok)

TrainingSession == \E c \in SessionInputs, ok \in BOOLEAN : training_session(c, ok)

CreateGroup ==
    \E b \in GroupBodies :
        \E f \in RequestFailPoints(create_stmts(db, strip(b.name), b.inputs, b.outputs)) :
            api_groups_post(b.name, b.inputs, b.outputs, f)

UpdateGroup ==
    \E g \in RequestIds, b \in GroupBodies :
        \E f \in RequestFailPoints(update_stmts(g, strip(b.name), b.inputs, b.outputs)) :
            api_group_item_patch(g, b.name, b.inputs, b.outputs, f)

DeleteGroup ==
    \E g \in RequestIds : \E f \in RequestFailPoints(delete_stmts(g)) :
        api_group_item_delete(g, f)

NextFlat == Load \/ TrainAdd \/ TrainingSession

NextGroups == CreateGroup \/ UpdateGroup \/ DeleteGroup

Next == NextFlat \/ NextGroups

\* the flat knowledge base alone
SpecFlat == Init /\ [][NextFlat]_vars

\* the grouped store alone
SpecGroups == Init /\ [][NextGroups]_vars

Spec == Init /\ [][Next]_vars

ThreadCall == \E t \in Threads, c \in ThreadCalls : thread_call(t, c)

ThreadAcquire == \E t \in Threads : thread_acquire(t)

ThreadExecute == \E t \in Threads : thread_execute(t)

ThreadCommit == \E t \in Threads : thread_commit(t)

ThreadSelect == \E t \in Threads : thread_select(t)

ThreadRelease == \E t \in Threads : thread_release(t)

NextGroupThreads ==
    ThreadCall \/ ThreadAcquire \/ ThreadExecute \/ ThreadCommit \/ ThreadSelect
    \/ ThreadRelease

\* the grouped store, written and read by concurrent request threads
SpecGroupThreads == Init /\ [][NextGroupThreads]_vars

WebRequest == \E t \in Threads, p \in ThreadPayloads : web_request(t, p)

WebLoop == \E t \in Threads : web_loop(t)

WebWrite == \E t \in Threads : web_write(t)

WebSave == \E t \in Threads : web_save(t)

NextFlatThreads == WebRequest \/ WebLoop \/ WebWrite \/ WebSave

\* the flat knowledge base, written by concurrent request threads
SpecFlatThreads == Init /\ [][NextFlatThreads]_vars

\* a variant whose answer moves the output it gave to the end of the outputs
\* of its phrase
chat_rotating_outputs(user_msg) ==
    /\ \E r \in {chat_result(kb, recent, user_msg)} :
          /\ recent' = r.recent
          /\ reply' = [by |-> "chat", message |-> user_msg, status |-> r.status,
                       reply |-> r.reply,
                       pushed |-> r.recent # recent,
                       popped |-> Len(recent) = WindowSize /\ r.recent # recent,
                       before |-> <<>>]
          /\ kb' = [i \in 1..Len(kb) |->
                       IF kb[i].type = "phrase" /\ r.reply \in Range(kb[i].outputs)
                       THEN [kb[i] EXCEPT !.outputs =
                                SelectSeq(@, LAMBDA o : o # r.reply) \o <<r.reply>>]
                       ELSE kb[i]]
    /\ UNCHANGED <<disk, last, db, glast, lock, th>>

\* POST /chat of webui.py. reply keeps the last request when it was a chat
\* message: the message and its answer, what the window did, and the answer
\* of the request before when that was a chat with the same message.
chat(user_msg) ==
    /\ \E r \in {chat_result(kb, recent, user_msg)} :
          LET again == reply.by = "chat" /\ reply.message = user_msg
          IN
          /\ recent' = r.recent
          /\ reply' = [by |-> "chat", message |-> user_msg, status |-> r.status,
                       reply |-> r.reply,
                       pushed |-> r.recent # recent,
                       popped |-> Len(recent) = WindowSize /\ r.recent # recent,
                       before |-> IF again THEN <<reply.reply>> ELSE <<>>]
    /\ UNCHANGED <<kb, disk, last, db, glast, lock, th>>

Teach == \E p \in AnswerPayloads : train_add(p, TRUE)

Chat == \E m \in ChatMessages : chat(m)

NextAnswer == Teach \/ Chat

\* the web UI of V1: entries are added and messages are answered
SpecAnswer == Init /\ [][NextAnswer]_vars

\* Chat requests of webui.py on concurrent threads. No lock is taken around
\* recent_phrase_responses: the membership test, the append, the test of the
\* length and the pop(0) of answer_phrase are steps of their own, and the
\* steps of two requests interleave.

\* the phrase the threads answer with: more outputs than the window holds
ThreadPhrase ==
    [type |-> "phrase", input |-> T_hi, outputs |-> <<T_a, T_b, T_c, T_d, T_e, T_f>>]

\* the messages the threads post
ThreadMessages == {T_hi}

ThreadTeach == train_add(ThreadPhrase, TRUE)

\* the number of requests a thread has been handed
served(t) == IF "served" \in DOMAIN th[t] THEN th[t].served ELSE 0

\* back to waiting for a request
Served(t) == [at |-> "idle", served |-> served(t)]

\* a thread of webui.py is handed a /chat request that answer_phrase matches
\* with a phrase: the loop over the outputs starts
chat_call(t, user_msg) ==
    /\ th[t].at = "idle"
    /\ served(t) < MaxRequests
    /\ try_math(user_msg).kind = "none"
    /\ matched_pair(kb, user_msg) # 0
    /\ th' = [th EXCEPT ![t] =
                 [at |-> "check", i |-> 1, served |-> served(t) + 1,
                  outputs |-> trigger_response_pairs(kb)[matched_pair(kb, user_msg)][2]]]
    /\ UNCHANGED <<kb, disk, last, db, glast, lock, recent, reply>>

\* for resp in outputs: if resp not in recent_phrase_responses; after the
\* loop, return outputs[0]
chat_check(t) ==
    /\ th[t].at = "check"
    /\ th' = [th EXCEPT ![t] =
                 IF th[t].i > Len(th[t].outputs) THEN Served(t)
                 ELSE IF th[t].outputs[th[t].i] \notin Range(recent)
                      THEN [th[t] EXCEPT !.at = "append"]
                 ELSE [th[t] EXCEPT !.i = @ + 1]]
    /\ UNCHANGED <<kb, disk, last, db, glast, lock, recent, reply>>

\* recent_phrase_responses.append(resp)
chat_append(t) ==
    /\ th[t].at = "append"
    /\ recent' = Append(recent, th[t].outputs[th[t].i])
    /\ th' = [th EXCEPT ![t] = [th[t] EXCEPT !.at = "len"]]
    /\ UNCHANGED <<kb, disk, last, db, glast, lock, reply>>

\* if len(recent_phrase_responses) > 5; else return resp
chat_len(t) ==
    /\ th[t].at = "len"
    /\ th' = [th EXCEPT ![t] =
                 IF Len(recent) > WindowSize THEN [th[t] EXCEPT !.at = "pop"] ELSE Served(t)]
    /\ UNCHANGED <<kb, disk, last, db, glast, lock, recent, reply>>

\* recent_phrase_responses.pop(0); return resp
chat_pop(t) ==
    /\ th[t].at = "pop"
    /\ recent' = Tail(recent)
    /\ th' = [th EXCEPT ![t] = Served(t)]
    /\ UNCHANGED <<kb, disk, last, db, glast, lock, reply>>

ChatCall == \E t \in Threads, m \in ThreadMessages : chat_call(t, m)

ChatCheck == \E t \in Threads : chat_check(t)

ChatAppend == \E t \in Threads : chat_append(t)

ChatLen == \E t \in Threads : chat_len(t)

ChatPop == \E t \in Threads : chat_pop(t)

NextAnswerThreads == ThreadTeach \/ ChatCall \/ ChatCheck \/ ChatAppend \/ ChatLen \/ ChatPop

\* the answers of webui.py, asked for by concurrent request threads
SpecAnswerThreads == Init /\ [][NextAnswerThreads]_vars


\* POST /api/chat of chat.py. reply keeps the request, the matches of its
\* pieces, the replies they got and the text that is sent back.
api_chat(message_raw) ==
    /\ \E r \in api_chat_results(db, message_raw) :
          reply' = [by |-> "api_chat", message |-> message_raw, status |-> r.status,
                    matches |-> r.matches, replies |-> r.replies, reply |-> r.reply]
    /\ UNCHANGED <<kb, disk, last, db, glast, lock, th, recent>>

ChatCreate == \E b \in ChatBodies : api_groups_post(b.name, b.inputs, b.outputs, 0)

ChatDelete == \E g \in RequestIds : api_group_item_delete(g, 0)

ApiChat == \E m \in ChatRaws : api_chat(m)

NextChat == ChatCreate \/ ChatDelete \/ ApiChat

\* the chat of V2: groups are created and deleted, and messages are answered
SpecChat == Init /\ [][NextChat]_vars

\* GET /api/groups?filter=...&scope=...
api_groups_get(filter_raw, scope_raw) ==
    /\ \E r \in {api_groups_get_result(db, filter_raw, scope_raw)} :
          reply' = [by |-> "search", q |-> r.q, scope |-> r.scope,
                    scored |-> r.scored, groups |-> r.groups]
    /\ UNCHANGED <<kb, disk, last, db, glast, lock, th, recent>>

SearchCreate == \E b \in SearchBodies : api_groups_post(b.name, b.inputs, b.outputs, 0)

SearchDelete == \E g \in RequestIds : api_group_item_delete(g, 0)

Search == \E f \in SearchFilters, sc \in SearchScopes : api_groups_get(f, sc)

NextSearch == SearchCreate \/ SearchDelete \/ Search

\* the grouped store and its search
SpecSearch == Init /\ [][NextSearch]_vars

\* the requests that read and the requests that write, on both stores
ReadBody == [name |-> T_hi, inputs |-> ListRaw(<<T_hi>>), outputs |-> ListRaw(<<T_a, T_b>>)]
NewBody == [name |-> <<>>, inputs |-> ListRaw(<<T_yo>>), outputs |-> ListRaw(<<T_c>>)]
ReadMessages == {T_hi, T_yo}
ReadRaws == {TextRaw(<<"H", "i", "!", " ", "y", "o">>)}
ReadFilters == {NoneRaw, TextRaw(<<" ", "h", "i">>)}

ReadTeach == train_add([type |-> "phrase", input |-> T_hi, outputs |-> <<T_a, T_b>>], TRUE)

ReadChat == \E m \in ReadMessages : chat(m)

ReadCreate == api_groups_post(ReadBody.name, ReadBody.inputs, ReadBody.outputs, 0)

ReadUpdate ==
    \E g \in RequestIds : api_group_item_patch(g, NewBody.name, NewBody.inputs, NewBody.outputs, 0)

ReadDelete == \E g \in RequestIds : api_group_item_delete(g, 0)

ReadApiChat == \E m \in ReadRaws : api_chat(m)

ReadSearch == \E f \in ReadFilters : api_groups_get(f, TextRaw(T_all))

NextReads ==
    ReadTeach \/ ReadChat \/ ReadCreate \/ ReadUpdate \/ ReadDelete \/ ReadApiChat \/ ReadSearch

SpecReads == Init /\ [][NextReads]_vars

---------------------------------------------------------------------------
(* Properties of the flat knowledge base (checked under SpecFlat).         *)

\* the elements of a sequence in order, each at its first occurrence only
RECURSIVE Distinct(_)
Distinct(seq) ==
    IF seq = <<>> THEN <<>>
    ELSE LET front == Distinct(SubSeq(seq, 1, Len(seq) - 1))
             x == seq[Len(seq)]
         IN IF x \in Range(front) THEN front ELSE Append(front, x)

\* two texts are equal up to the case of their letters
EqualIgnoringCase(a, b) ==
    Len(a) = Len(b) /\ \A i \in 1..Len(a) : ToLower(a[i]) = ToLower(b[i])

IsExample(entry) == entry.type = "example"

\* the (input, output) pairs of the example entries
ExamplePairs(knowledge) ==
    {<<knowledge[i].input, knowledge[i].output>> :
        i \in {j \in 1..Len(knowledge) : IsExample(knowledge[j])}}

\* the positions of the example entries with this input
ExamplesFor(knowledge, input) ==
    {i \in 1..Len(knowledge) : IsExample(knowledge[i]) /\ knowledge[i].input = input}

\* C1: for every entry the entry points can build and every reachable store,
\* add_or_merge_entry applied twice with the same entry leaves the same list
\* (size, content, order) as applied once.
C1_MergeIdempotent ==
    \A e \in NewEntries :
        add_or_merge_entry(add_or_merge_entry(kb, e), e) = add_or_merge_entry(kb, e)

\* C2: adding a phrase whose trigger set meets the trigger set of a stored
\* phrase appends no entry; one such stored phrase gets its previous outputs
\* followed by the new outputs it did not have, in payload order, and nothing
\* else changes.
C2_PhraseCollisionUnionsOutputs ==
    \A e \in {x \in NewEntries : x.type = "phrase"} :
        LET after == add_or_merge_entry(kb, e)
            met == {i \in 1..Len(kb) :
                        kb[i].type = "phrase"
                        /\ (existing_triggers(e) \cap existing_triggers(kb[i])) # {}}
        IN met # {} =>
              /\ Len(after) = Len(kb)
              /\ \E i \in met :
                    /\ after[i].outputs =
                         kb[i].outputs
                         \o Distinct(SelectSeq(e.outputs,
                                               LAMBDA o : o \notin Range(kb[i].outputs)))
                    /\ \A j \in (1..Len(kb)) \ {i} : after[j] = kb[j]

\* the triggers of the phrase entries of a list
StoredTriggers(knowledge) ==
    UNION {existing_triggers(knowledge[i]) :
              i \in {j \in 1..Len(knowledge) : knowledge[j].type = "phrase"}}

\* C29: after add_or_merge_entry of a phrase, every trigger of the added
\* phrase is a trigger of a phrase entry of the list, whether the phrase was
\* appended or merged into a stored one.
C29_AddedTriggersAreStored ==
    \A e \in {x \in NewEntries : x.type = "phrase"} :
        existing_triggers(e) \subseteq StoredTriggers(add_or_merge_entry(kb, e))

\* C3: the store holds at most one example per input; adding an example leaves
\* exactly one example for its input, with the output just given, and the other
\* examples as they were; adding anything else leaves the examples as they were.
C3_ExampleUpsert ==
    /\ \A i, j \in 1..Len(kb) :
          (IsExample(kb[i]) /\ IsExample(kb[j]) /\ kb[i].input = kb[j].input) => i = j
    /\ \A e \in NewEntries :
          LET after == add_or_merge_entry(kb, e)
          IN IF IsExample(e)
             THEN /\ Cardinality(ExamplesFor(after, e.input)) = 1
                  /\ <<e.input, e.output>> \in ExamplePairs(after)
                  /\ {p \in ExamplePairs(after) : p[1] # e.input}
                       = {p \in ExamplePairs(kb) : p[1] # e.input}
             ELSE SelectSeq(after, IsExample) = SelectSeq(kb, IsExample)

\* C3, witness: the last add overwrote the output of a stored example, and an
\* example in memory has another output than the one the file has for its input.
C3_Witness ==
    /\ last.branch = "updated"
    /\ \E i \in 1..Len(kb) : \E j \in 1..Len(disk) :
          /\ IsExample(kb[i]) /\ IsExample(disk[j])
          /\ kb[i].input = disk[j].input
          /\ kb[i].output # disk[j].output

\* whether the store holds an entry equal to e in the sense of C4
HasEqualEntry(knowledge, e) ==
    \E i \in 1..Len(knowledge) :
        /\ knowledge[i].type = e.type
        /\ IF e.type = "association" THEN knowledge[i].content = e.content
           ELSE EqualIgnoringCase(knowledge[i].content, e.content)

\* C4: adding a fact, concept, rule or instruction whose content equals,
\* ignoring case, that of a stored entry of its type, or an association whose
\* triple is stored, leaves the list as it is, and the request succeeds.
C4_DuplicateIsNoOp ==
    /\ \A e \in {x \in NewEntries : x.type \in ContentTypes \cup {"association"}} :
          HasEqualEntry(kb, e) => add_or_merge_entry(kb, e) = kb
    /\ \A p \in {q \in TrainPayloads : ~train_invalid(q)} :
          LET e == train_entry(p)
          IN (e.type \in ContentTypes \cup {"association"} /\ HasEqualEntry(kb, e)) =>
                /\ train_add_result(kb, disk, p, TRUE).kb = kb
                /\ train_add_result(kb, disk, p, TRUE).last.status = 200
    /\ \A c \in {d \in SessionInputs : ~session_skips(d)} :
          LET e == session_entry(c)
          IN (e.type \in ContentTypes \cup {"association"} /\ HasEqualEntry(kb, e)) =>
                /\ training_session_result(kb, disk, c, TRUE).kb = kb
                /\ training_session_result(kb, disk, c, TRUE).last.status = 200

\* C4, witness: the last add found its entry stored already, in a store where
\* an entry differs from a possible new one by case only.
C4_Witness ==
    /\ last.branch = "duplicate"
    /\ last.status = 200
    /\ \E e \in NewEntries : \E i \in 1..Len(kb) :
          /\ e.type \in ContentTypes
          /\ kb[i].type = e.type
          /\ kb[i].content # e.content
          /\ EqualIgnoringCase(kb[i].content, e.content)

\* C10: after an add request whose write to the file failed, the in-memory list
\* equals the list last written to the file.
C10_FailedSaveUndoesAdd ==
    (last.op = "train_add" /\ last.status = 500) => kb = disk

\* a required field of the payload is absent or empty, in the words of C11
FieldMissingOrEmpty(rec, k) == k \notin DOMAIN rec \/ rec[k] = <<>>

\* the payloads C11 wants refused
MissingOrEmptyField(p) ==
    IF "type" \notin DOMAIN p THEN TRUE
    ELSE CASE p.type \in ContentTypes -> FieldMissingOrEmpty(p, "content")
           [] p.type = "association" ->
                  "content" \notin DOMAIN p
                  \/ \E k \in {"subject", "predicate", "object"} :
                         FieldMissingOrEmpty(p.content, k)
           [] p.type = "example" ->
                  FieldMissingOrEmpty(p, "input") \/ FieldMissingOrEmpty(p, "output")
           [] p.type = "phrase" ->
                  FieldMissingOrEmpty(p, "input") \/ FieldMissingOrEmpty(p, "outputs")
           [] OTHER -> TRUE

\* C11: a request to /train/add whose type is unknown or missing, or one of
\* whose required fields is missing or empty, is answered with a validation
\* error and changes neither the in-memory list nor the file.
C11_InvalidAddRejected ==
    \A p \in TrainPayloads :
        MissingOrEmptyField(p) =>
            LET r == train_add_result(kb, disk, p, TRUE)
            IN r.last.status = 400 /\ r.kb = kb /\ r.disk = disk

---------------------------------------------------------------------------
(* Properties of the grouped store (checked under SpecGroups).             *)

\* everything the database holds that is not of group gid
OthersOf(d, gid) ==
    [groups |-> SelectSeq(d.groups, LAMBDA r : r.id # gid),
     questions |-> SelectSeq(d.questions, LAMBDA r : r.group_id # gid),
     answers |-> SelectSeq(d.answers, LAMBDA r : r.group_id # gid),
     seq |-> d.seq]

\* the sentences and the outputs a request body asks to store
BodySentences(b) == sentences_of(validate_inputs(ensure_list(b.inputs)))
BodyOutputs(b) == validate_inputs(ensure_list(b.outputs))

\* C5, as claimed: no normalized trigger sentence is stored under two groups.
C5_NormalizedTriggerInOneGroup ==
    \A i, j \in 1..Len(db.questions) :
        db.questions[i].question_norm = db.questions[j].question_norm
            => db.questions[i].group_id = db.questions[j].group_id

\* C5, amended: no trigger sentence text is stored twice, and inserting a
\* sentence whose exact text is stored, under any group, adds nothing.
C5_TriggerTextStoredOnce ==
    /\ \A i, j \in 1..Len(db.questions) :
          db.questions[i].question = db.questions[j].question => i = j
    /\ \A g \in RequestIds : \A i \in 1..Len(db.questions) :
          execute(db, InsQuestion(g, db.questions[i].question)).questions = db.questions

\* C5, witness: two groups hold sentences of one normalized form. Every request
\* body with the second sentence has the first one too, so the group holding
\* only one of them had its insert of the other ignored.
C5_Witness ==
    /\ glast.status = 200
    /\ \E i, j \in 1..Len(db.questions) :
          /\ db.questions[i].group_id # db.questions[j].group_id
          /\ {db.questions[i].group_id, db.questions[j].group_id} \subseteq GroupIds(db)
          /\ db.questions[i].question_norm = db.questions[j].question_norm

\* C6, as claimed: no group has two outputs of the same normalized form.
C6_NormalizedOutputsDistinct ==
    \A i, j \in 1..Len(db.answers) :
        (db.answers[i].group_id = db.answers[j].group_id
         /\ normalize_text(db.answers[i].answer) = normalize_text(db.answers[j].answer))
            => i = j

\* C6, amended: no group has two outputs of the same text.
C6_OutputTextStoredOncePerGroup ==
    \A i, j \in 1..Len(db.answers) :
        (db.answers[i].group_id = db.answers[j].group_id
         /\ db.answers[i].answer = db.answers[j].answer)
            => i = j

\* C6, witness: a group stores the two distinct outputs of the body that gives
\* three, the third being the first again.
C6_Witness ==
    /\ glast.status = 200
    /\ \E g \in GroupIds(db) : \E b \in GroupBodies :
          /\ Len(BodyOutputs(b)) > Len(AnswersOf(db, g))
          /\ AnswersOf(db, g) = Distinct(BodyOutputs(b))
          /\ Len(AnswersOf(db, g)) = 2

\* C7, as claimed: after update_group on an existing group its triggers are the
\* sentences of the new inputs, none missing and none left over, its answers
\* are the new outputs in payload order, and every other group is unchanged.
C7_UpdateStoresWholePayload ==
    \A g \in GroupIds(db) : \A b \in GroupBodies :
        LET after == api_group_item_patch_result(db, g, b.name, b.inputs, b.outputs, 0).db
        IN /\ Range(QuestionsOf(after, g)) = Range(BodySentences(b))
           /\ AnswersOf(after, g) = Distinct(BodyOutputs(b))
           /\ OthersOf(after, g) = OthersOf(db, g)

\* C7, amended: the triggers are the sentences of the new inputs, each once,
\* without those whose text is stored under another group id; the answers are
\* the new outputs, each once; every other group is unchanged.
C7_UpdateReplacesGroup ==
    \A g \in GroupIds(db) : \A b \in GroupBodies :
        LET after == api_group_item_patch_result(db, g, b.name, b.inputs, b.outputs, 0).db
            taken == {db.questions[i].question :
                         i \in {k \in 1..Len(db.questions) : db.questions[k].group_id # g}}
        IN /\ QuestionsOf(after, g)
                = Distinct(SelectSeq(BodySentences(b), LAMBDA q : q \notin taken))
           /\ AnswersOf(after, g) = Distinct(BodyOutputs(b))
           /\ OthersOf(after, g) = OthersOf(db, g)

\* C7, witness: the last request patched a group that existed, and the store
\* holds sentences of two groups.
C7_Witness ==
    /\ glast.updated
    /\ glast.status = 200
    /\ \E i, j \in 1..Len(db.questions) :
          db.questions[i].group_id # db.questions[j].group_id

\* C8: update_group and delete_group on an id that names no group are reported
\* as not found and change nothing.
C8_MissingGroupReportedNoOp ==
    \A g \in RequestIds \ GroupIds(db) :
        /\ \A b \in GroupBodies :
              LET r == api_group_item_patch_result(db, g, b.name, b.inputs, b.outputs, 0)
              IN r.db = db /\ r.glast.status = 404
        /\ LET r == api_group_item_delete_result(db, g, 0)
           IN r.db = db /\ r.glast.status = 404

\* C9: a create, update or delete that fails at any of its statements, or at
\* its commit, leaves the database as it was, and is answered with an error.
C9_FailedMutationLeavesStore ==
    /\ \A b \in {x \in GroupBodies : ~(NotRaw(x.inputs) /\ NotRaw(x.outputs))} :
          \A f \in FailPoints(create_stmts(db, strip(b.name), b.inputs, b.outputs)) \ {0} :
              LET r == api_groups_post_result(db, b.name, b.inputs, b.outputs, f)
              IN r.db = db /\ r.glast.status = 500
    /\ \A g \in RequestIds : \A b \in GroupBodies :
          \A f \in FailPoints(update_stmts(g, strip(b.name), b.inputs, b.outputs)) \ {0} :
              LET r == api_group_item_patch_result(db, g, b.name, b.inputs, b.outputs, f)
              IN r.db = db /\ r.glast.status = 500
    /\ \A g \in RequestIds : \A f \in FailPoints(delete_stmts(g)) \ {0} :
          LET r == api_group_item_delete_result(db, g, f)
          IN r.db = db /\ r.glast.status = 500

\* C9, witness: the last request failed after its first statement, on a store
\* that holds groups and rows.
C9_Witness ==
    /\ glast.status = 500
    /\ db.groups # <<>>
    /\ db.questions # <<>>
    /\ db.answers # <<>>

---------------------------------------------------------------------------
(* Properties of the request threads (SpecGroupThreads, SpecFlatThreads).  *)

\* the threads inside a "with db_lock" block
InCriticalSection == {t \in Threads : th[t].at \in {"transaction", "select", "release"}}

\* C12: every write and every read of the grouped store runs while its thread
\* holds db_lock: at most one thread is inside its critical section, it is the
\* holder of the lock, and a read sees the committed content of the store
\* while no transaction of another thread is under way.
C12_StoreLockSerializes ==
    /\ Cardinality(InCriticalSection) <= 1
    /\ \A t \in InCriticalSection : lock = t
    /\ \A t \in Threads :
          (th[t].at = "release" /\ th[t].call.op \in ReadOps) =>
              /\ th[t].seen = call_reads(db, th[t].call)
              /\ \A u \in Threads : th[u].at # "transaction"

\* C12, witness: update_group of one thread has deleted the triggers of the
\* group and not committed yet, and a read of the other thread waits for the
\* lock.
C12_Witness ==
    \E t, u \in Threads :
        /\ th[t].at = "transaction"
        /\ th[t].call.op = "update_group"
        /\ QuestionsOf(db, th[t].call.gid) # <<>>
        /\ QuestionsOf(th[t].working, th[t].call.gid) = <<>>
        /\ th[u].at = "acquire"
        /\ th[u].call.op \in ReadOps

\* C13: with add requests running on concurrent threads, the rules against
\* duplicates still hold: no two entries of type fact, concept, rule or
\* instruction have the same content up to case, and no two examples have the
\* same input.
C13_ConcurrentAddsKeepDedup ==
    \A i, j \in 1..Len(kb) :
        (/\ kb[i].type = kb[j].type
         /\ \/ kb[i].type \in ContentTypes
               /\ EqualIgnoringCase(kb[i].content, kb[j].content)
            \/ kb[i].type = "example" /\ kb[i].input = kb[j].input)
            => i = j

---------------------------------------------------------------------------
(* Properties of the answers of chatbot.py (checked under SpecAnswer).     *)

\* C14: the window of recent responses never holds more than five of them,
\* and a response pushed into a window of five drops the oldest one: the
\* window is then the four newer responses followed by the new one.
C14_WindowHoldsFive ==
    [][/\ Len(recent') <= WindowSize
       /\ (Len(recent) = WindowSize /\ recent' # recent) =>
              recent' = Append(Tail(recent), reply'.reply)]_vars

\* C14, witness: a chat request pushed its answer into a window of five.
C14_Witness ==
    /\ reply.by = "chat"
    /\ reply.popped
    /\ Len(recent) = WindowSize
    /\ recent[WindowSize] = reply.reply

\* the outputs of the phrase the message is matched with
MatchedOutputs(knowledge, msg) ==
    IF matched_pair(knowledge, msg) = 0 THEN <<>>
    ELSE trigger_response_pairs(knowledge)[matched_pair(knowledge, msg)][2]

\* the message is answered by answer_phrase
AnsweredByPhrase(knowledge, msg) ==
    /\ lower(strip(msg)) # T_train
    /\ try_math(msg).kind = "none"
    /\ matched_pair(knowledge, msg) # 0

\* C15: when a message matches a phrase that has two distinct outputs or more,
\* two consecutive answers to that message are never the same.
C15_NoImmediateRepeat ==
    (/\ reply.by = "chat"
     /\ reply.before # <<>>
     /\ AnsweredByPhrase(kb, reply.message)
     /\ Cardinality(Range(MatchedOutputs(kb, reply.message))) >= 2)
        => reply.reply # reply.before[1]

\* C23: when a phrase is matched, answer_phrase returns an output of the
\* phrase that is not in the window of recent responses whenever the phrase
\* has one; only when every output of the phrase is in the window does it
\* return the first output of the phrase.
C23_FreshOutputFirst ==
    [][(reply'.by = "chat" /\ AnsweredByPhrase(kb, reply'.message)) =>
          \A outputs \in {MatchedOutputs(kb, reply'.message)} :
              /\ reply'.status = 200
              /\ reply'.reply \in Range(outputs)
              /\ (Range(outputs) \ Range(recent) # {}) => reply'.reply \notin Range(recent)
              /\ (Range(outputs) \subseteq Range(recent)) => reply'.reply = outputs[1]]_vars

\* the answer is an output that is not the first of its phrase, because the
\* first one was in the window
C23_Witness ==
    /\ reply.by = "chat"
    /\ AnsweredByPhrase(kb, reply.message)
    /\ reply.pushed
    /\ reply.reply # MatchedOutputs(kb, reply.message)[1]
    /\ MatchedOutputs(kb, reply.message)[1] \in Range(recent)

\* C24: after every selection of answer_phrase, a fallback selection made
\* when all the outputs are in the window included, the response it returned
\* is the newest element of the window of recent responses (so that the
\* window is the last responses, at most five, oldest first).
C24_ResponseIsNewestInWindow ==
    (reply.by = "chat" /\ AnsweredByPhrase(kb, reply.message)) =>
        /\ recent # <<>>
        /\ recent[Len(recent)] = reply.reply

\* the messages the properties of try_math are stated for
MathTexts ==
    { <<"2", "*", "*", "3">>, <<"1", "/", "0">>, <<"1", "+", "0">>, <<"1", "+", "1">>, <<"4", "/", "2">>, <<"7", "/", "/", "2">>,
      <<"(", ")">>, <<".", ".", ".">>, <<".">>, <<".", ".">>, <<"0", "1">>,
      <<"2", " ", "p", "l", "u", "s", " ", "2">>, <<"1", "(", "2", ")">>,
      <<"(", "1", "+", "2", ")", "*", "3">>, <<"-", "3">>, <<"1", ".", "5", "*", "2">>,
      <<"(", "1">>, <<"1", "+">> }

\* the messages the order of try_math and the knowledge base is stated for:
\* the evaluation of 1/0 and of (1 fails, and 1+0 matches the phrase 1/0
FallThroughTexts ==
    {T_1_0, <<"(", "1">>, <<"1", "+", "0">>, <<"2", "*", "*", "3">>}

\* the text try_math hands to eval()
MathText(msg) == replace_all(lower(msg), Len(replacements))

\* the message passes the filter of try_math and its evaluation fails
MathFails(msg) == math_filter(MathText(msg)) /\ py_eval(MathText(msg)).k = "error"

\* C17: try_math is tried before the knowledge base: a message it evaluates is
\* answered with the result and the window is left alone, even when a phrase
\* matches the message. When the evaluation fails, no error leaves
\* answer_question, and the answer and the window are what the knowledge
\* matching alone gives for the message.
C17_FailedMathFallsThrough ==
    \A msg \in FallThroughTexts :
        \A r \in {answer_question(kb, recent, msg)}, m \in {try_math(msg)} :
            /\ r.result.kind # "raised"
            /\ m.kind = "str" => r = [result |-> m, recent |-> recent]
            /\ MathFails(msg) => r = answer_knowledge(kb, recent, msg)

\* C17, witness: the message 1/0, whose evaluation fails, was answered with
\* an output of the phrase it matches.
C17_Witness ==
    /\ reply.by = "chat"
    /\ reply.message = T_1_0
    /\ MathFails(reply.message)
    /\ reply.status = 200
    /\ reply.pushed
    /\ reply.reply \in Range(MatchedOutputs(kb, T_1_0))

\* the text is made of numeric literals, + - * / and parentheses that hold
\* something
PlainArithmetic(text) ==
    LET toks == tokens(text, 1)
    IN /\ \A i \in 1..Len(toks) : toks[i].t \in {"num", "+", "-", "*", "/", "(", ")"}
       /\ \A i \in 1..(Len(toks) - 1) : ~(toks[i].t = "(" /\ toks[i + 1].t = ")")

\* the text is the string form of a number: digits, with at most one point
\* between two of them, after at most one minus sign
IsNumberText(s) ==
    LET body == IF s # <<>> /\ s[1] = "-" THEN Tail(s) ELSE s
    IN /\ body # <<>>
       /\ \A i \in 1..Len(body) : IsDigit(body[i]) \/ body[i] = "."
       /\ Cardinality({i \in 1..Len(body) : body[i] = "."}) <= 1
       /\ IsDigit(body[1])
       /\ IsDigit(body[Len(body)])

\* C18: try_math returns a result only for a text made of numeric literals,
\* + - * / and parentheses, and every result is the string form of a number;
\* a text with **, //, empty parentheses or dots alone has no result. Stated
\* for the texts of MathTexts and for the message that was answered last.
C18_ShortcutOnlyPlainArithmetic ==
    \A msg \in MathTexts \cup (IF reply.by = "chat" THEN {reply.message} ELSE {}) :
        try_math(msg).kind = "str" =>
            /\ PlainArithmetic(MathText(msg))
            /\ IsNumberText(try_math(msg).text)

---------------------------------------------------------------------------
(* Properties of the chat of V2/chat.py (checked under SpecChat).          *)

\* the last request was a chat that /api/chat answered with 200
Answered == reply.by = "api_chat" /\ reply.status = 200

\* the i-th piece of the answered message matched a trigger of a group that
\* has no answer
MatchedWithoutAnswer(i) ==
    /\ reply.matches[i].gid # 0
    /\ AnswersOf(db, reply.matches[i].gid) = <<>>

\* C16: when the group a piece matched has no answer, the selection of the
\* answer returns None and raises nothing, and the part of the reply for that
\* piece is the fixed sentence "I know that question but don't have answers
\* yet.". (In the flat knowledge base of chatbot.py a phrase never has an
\* empty list of outputs: train_add and training_session refuse it.)
C16_EmptyAnswerSetIsKnownQuestion ==
    reply.by = "api_chat" =>
        \A i \in 1..Len(reply.matches) :
            MatchedWithoutAnswer(i) =>
                /\ get_random_answer_for_group(db, reply.matches[i].gid) = {None}
                /\ reply.status = 200
                /\ reply.replies[i] = NoAnswers

C16_Witness ==
    /\ Answered
    /\ \E i \in 1..Len(reply.matches) :
          MatchedWithoutAnswer(i) /\ reply.replies[i] = NoAnswers

\* no stored trigger is as close to the piece as the cutoff 0.5 asks:
\* SequenceMatcher(a=question_norm, b=normalize_text(piece)).ratio() < 0.5
\* for every row of questions whose question_norm is not empty
NoTriggerAtCutoff(d, piece) ==
    \A k \in 1..Len(d.questions) :
        d.questions[k].question_norm # <<>> =>
            ~AtLeast(ratio(d.questions[k].question_norm, normalize_text(piece)), 1, 2)

\* C19: a chat request never ends with an exception: it is answered with 200,
\* or with 400 when the message is missing or blank. Every piece that no
\* stored trigger reaches the cutoff for, and every piece when no trigger is
\* stored, gets the one sentence "I don't know that yet. Add it in Q&A.".
C19_UnmatchedPieceGetsFallback ==
    reply.by = "api_chat" =>
        /\ reply.status \in {200, 400}
        /\ (reply.status = 400) <=> (message_of(reply.message) = <<>>)
        /\ (reply.status = 200) =>
              \A i \in 1..Len(reply.matches) :
                  NoTriggerAtCutoff(db, reply.matches[i].piece) =>
                      /\ reply.matches[i].gid = 0
                      /\ reply.replies[i] = Fallback

\* triggers are stored, one piece of the message matched one, and another
\* piece, which no trigger reaches the cutoff for, got the fallback
C19_Witness ==
    /\ Answered
    /\ db.questions # <<>>
    /\ \E i, j \in 1..Len(reply.matches) :
          /\ reply.matches[i].gid # 0
          /\ NoTriggerAtCutoff(db, reply.matches[j].piece)
          /\ reply.replies[j] = Fallback

\* the non-empty pieces of a message: the paragraphs in the order of the
\* text, the sentences of each paragraph in their order, stripped
PiecesOfMessage(message_raw) ==
    LET paragraphs == split_paragraphs(message_of(message_raw))
        sentences(k) == split_into_sentences(paragraphs[k])
        RECURSIVE from(_, _)
        from(k, i) ==
            IF k > Len(paragraphs) THEN <<>>
            ELSE IF i > Len(sentences(k)) THEN from(k + 1, 1)
            ELSE (IF strip(sentences(k)[i]) = <<>> THEN <<>>
                  ELSE <<strip(sentences(k)[i])>>) \o from(k, i + 1)
    IN from(1, 1)

\* the part of the reply for a match is the fallback, the sentence for a
\* group without answer, or one of the answers of the matched group
PartOf(d, match, part) ==
    IF match.gid = 0 THEN part = Fallback
    ELSE IF AnswersOf(d, match.gid) = <<>> THEN part = NoAnswers
    ELSE part \in Range(AnswersOf(d, match.gid))

\* text is parts[1], a blank line, parts[2], a blank line, ..., parts[n]
BlankLineSeparated(parts, text) ==
    LET RECURSIVE start(_)
        start(i) == IF i = 1 THEN 1 ELSE start(i - 1) + Len(parts[i - 1]) + 2
    IN /\ \A i \in 1..Len(parts) :
             /\ start(i) + Len(parts[i]) - 1 <= Len(text)
             /\ SubSeq(text, start(i), start(i) + Len(parts[i]) - 1) = parts[i]
             /\ i < Len(parts) =>
                   /\ start(i + 1) - 1 <= Len(text)
                   /\ SubSeq(text, start(i) + Len(parts[i]), start(i + 1) - 1) = <<NL, NL>>
       /\ Len(text) = IF parts = <<>> THEN 0
                      ELSE start(Len(parts)) + Len(parts[Len(parts)]) - 1

\* C20: the reply to a message has one part for each non-empty piece of the
\* message (the paragraphs in the order of the text, the sentences of each
\* paragraph in their order), the i-th part is the part for the i-th piece,
\* and the parts are separated by a blank line.
C20_OnePartPerPieceInOrder ==
    Answered =>
        LET pieces == PiecesOfMessage(reply.message)
        IN /\ Len(reply.replies) = Len(pieces)
           /\ Len(reply.matches) = Len(pieces)
           /\ \A i \in 1..Len(pieces) :
                 /\ reply.matches[i].piece = pieces[i]
                 /\ PartOf(db, reply.matches[i], reply.replies[i])
           /\ BlankLineSeparated(reply.replies, reply.reply)

\* a message of two paragraphs and three pieces whose three parts are three
\* different texts
C20_Witness ==
    /\ Answered
    /\ Len(split_paragraphs(message_of(reply.message))) = 2
    /\ Len(reply.replies) = 3
    /\ Cardinality(Range(reply.replies)) = 3

\* the score of the k-th candidate of norm_list for a piece
CandidateScore(d, k, piece) == ratio(norm_list(d)[k], normalize_text(piece))

\* the first candidate, in the order of norm_list, whose score for the piece
\* is the highest of all candidates; 0 when that score is below the cutoff or
\* when there is no candidate
FirstHighest(d, piece) ==
    LET highest == {k \in 1..Len(norm_list(d)) :
                       \A j \in 1..Len(norm_list(d)) :
                           ~Above(CandidateScore(d, j, piece), CandidateScore(d, k, piece))}
    IN IF highest = {} THEN 0
       ELSE IF AtLeast(CandidateScore(d, Min(highest), piece), 1, 2) THEN Min(highest)
       ELSE 0

\* C26: for each piece the matcher reports the one stored trigger with the
\* highest score, and only when that score is 0.5 at least; of several
\* triggers with the highest score it reports the first in the order of the
\* candidates, the order in which the normalized triggers were first seen.
C26_FirstSeenHighestTriggerReported ==
    Answered =>
        \A i \in 1..Len(reply.matches) :
            IF FirstHighest(db, reply.matches[i].piece) = 0
            THEN reply.matches[i].gid = 0
            ELSE /\ reply.matches[i].gid =
                        norm_map(db, norm_list(db)[FirstHighest(db, reply.matches[i].piece)]).gid
                 /\ reply.matches[i].question =
                        norm_map(db, norm_list(db)[FirstHighest(db, reply.matches[i].piece)]).question

---------------------------------------------------------------------------
(* Properties of the index of normalized triggers (checked under           *)
(* SpecGroups).                                                            *)

\* the group a message that is the normalized trigger itself is resolved to
ResolvedGroup(d, norm) == find_best_matches_for_message(d, norm)[1].gid

\* the group has a trigger row with this normalized trigger
HoldsTrigger(d, gid, norm) ==
    \E k \in 1..Len(d.questions) :
        d.questions[k].group_id = gid /\ d.questions[k].question_norm = norm

\* C27: when a normalized trigger is stored for several groups, a piece that
\* matches it is resolved to the group that inserted it first, and no request
\* changes that while this group keeps the trigger: not a createGroup, not an
\* updateGroup, not a re-save of this first group with the inputs it has.
C27_FirstInserterKeepsTrigger ==
    [][\A k \in 1..Len(norm_list(db)) :
           HoldsTrigger(db', ResolvedGroup(db, norm_list(db)[k]), norm_list(db)[k])
               => ResolvedGroup(db', norm_list(db)[k]) = ResolvedGroup(db, norm_list(db)[k])]_vars

\* C28: every trigger row and every answer row belongs to a group that
\* exists: deleteGroup leaves no row of the deleted group, no request stores
\* a row for an id that names no group, and so no piece of a message is
\* resolved to a group that does not exist.
C28_RowsBelongToGroups ==
    /\ \A k \in 1..Len(db.questions) : db.questions[k].group_id \in GroupIds(db)
    /\ \A k \in 1..Len(db.answers) : db.answers[k].group_id \in GroupIds(db)
    /\ \A k \in 1..Len(norm_list(db)) : ResolvedGroup(db, norm_list(db)[k]) \in GroupIds(db)

\* the group has a trigger row or an answer row
HasRows(d, gid) ==
    \/ \E k \in 1..Len(d.questions) : d.questions[k].group_id = gid
    \/ \E k \in 1..Len(d.answers) : d.answers[k].group_id = gid

\* C30: every group a create-group request adds has one stored input or one
\* stored output at least: a request whose inputs and outputs are all empty
\* once cleaned (blank, removed by sanitizing, ignored as duplicates) is
\* rejected and adds no group.
C30_CreatedGroupHasRows ==
    [][\A gid \in GroupIds(db') \ GroupIds(db) : HasRows(db', gid)]_vars

---------------------------------------------------------------------------
(* Properties of the search of V2/chat.py (checked under SpecSearch).      *)

IsOne(score) == score[1] = score[2]
IsZero(score) == score[1] = 0

\* the texts a search compared: the filter and the texts of the groups
ComparedTexts ==
    IF reply.by # "search" THEN {}
    ELSE {reply.q}
         \cup UNION {Range(scope_texts(reply.scored[k].g, T_all)) : k \in 1..Len(reply.scored)}

\* C21: similarity(x, x) is 1.0 for every text x that is not empty, texts of
\* punctuation or whitespace included, similarity("", "") is 1.0, and
\* similarity("", y) is 0.0 for every y that is not empty.
C21_SimilarityOfEqualTexts ==
    /\ IsOne(similarity(<<>>, <<>>))
    /\ \A x \in ComparedTexts \ {<<>>} :
          /\ IsOne(similarity(x, x))
          /\ IsZero(similarity(<<>>, x))

---------------------------------------------------------------------------
(* Properties of the requests that read (checked under SpecReads).         *)

\* the last request was an answer, a match or a search
ReadRequests == {"chat", "api_chat", "search"}

\* C22: a chat request of either program and a search never change the
\* knowledge store: the entries of kb, the file, and the groups, triggers and
\* answers of the database are the same before and after it; a step that
\* changes one of them is an add or merge of an entry or a create, update or
\* delete of a group.
C22_ReadsLeaveStore ==
    [][reply'.by \in ReadRequests => (kb' = kb /\ disk' = disk /\ db' = db)]_vars

\* a search found a group while the flat knowledge base had answered from a
\* phrase
C22_Witness ==
    /\ reply.by = "search"
    /\ reply.groups # <<>>
    /\ kb # <<>>
    /\ recent # <<>>

---------------------------------------------------------------------------
(* Properties of the concurrent answers (checked under SpecAnswerThreads). *)

\* C25: with chat requests running concurrently on the shared window of
\* recent responses, the window holds five responses at most in every
\* reachable state, whatever the interleaving of the membership tests, the
\* appends and the evictions of the requests.
C25_WindowHoldsFiveUnderThreads ==
    Len(recent) <= WindowSize

====
